---- MODULE Spec2Model ----
(***************************************************************************)
(* Model of the PHIVOLCS scraper (backend/src/scraper.ts, here             *)
(* src/unnamed/part_000): parseDate and scrapePHIVOLCS, and of the         *)
(* GET /api/earthquakes handler of backend/src/server.ts.                  *)
(*                                                                         *)
(* Representation.                                                         *)
(*  - A JavaScript string is a sequence of words; the string is the words  *)
(*    joined by single blanks, "" is << >>.  The word "-" between two      *)
(*    other words is the delimiter " - ".                                  *)
(*  - A JavaScript number is an integer in thousandths (6.34 is 6340);     *)
(*    NaN is the constant NaN.  Timestamps are plain milliseconds; the     *)
(*    dates of the model lie around 1 January 1970 so that they fit the    *)
(*    integers of the checker.  The server's time zone is UTC.             *)
(***************************************************************************)
EXTENDS Integers, Sequences, FiniteSets, TLC

(***************************************************************************)
(* Bounds of the model.                                                    *)
(***************************************************************************)
MaxItems == 2
MaxTicks == 1
MaxRandom == 1

(***************************************************************************)
(* Numbers.                                                                *)
(***************************************************************************)
NaN == -2000000000
isNaN(x) == x = NaN
\* JavaScript's x || y on numbers: 0 and NaN are falsy.
OrElse(x, y) == IF x = 0 \/ isNaN(x) THEN y ELSE x
Truthy(x) == x # 0 /\ ~isNaN(x)
\* Comparisons with NaN are false.
Lt(a, b) == ~isNaN(a) /\ ~isNaN(b) /\ a < b
Gt(a, b) == Lt(b, a)
Ge(a, b) == ~isNaN(a) /\ ~isNaN(b) /\ a >= b
Le(a, b) == Ge(b, a)
Abs(x) == IF x < 0 THEN -x ELSE x

(***************************************************************************)
(* Words and what the platform reads in them.                              *)
(***************************************************************************)
MonthNames ==
  <<"January", "February", "March", "April", "May", "June", "July",
    "August", "September", "October", "November", "December">>
IsMonth(w) == \E i \in 1..12 : MonthNames[i] = w
MonthIndex(w) == CHOOSE i \in 1..12 : MonthNames[i] = w
\* Days before the first of each month in a year that is not a leap year.
DaysBefore == <<0, 31, 59, 90, 120, 151, 181, 212, 243, 273, 304, 334>>

DayWords == {"1", "2", "16", "31"}
YearWords == {"1969", "1970"}
ClockWords == {"02:35", "02:36"}
SlashDates == {"01/02/1970"}
DashDates == {"01-02-1970"}

\* parseFloat(word): the number in the longest numeric prefix, NaN if none.
parseFloatWord(w) ==
  CASE w = "1" -> 1000
    [] w = "2" -> 2000
    [] w = "16" -> 16000
    [] w = "31" -> 31000
    [] w = "1969" -> 1969000
    [] w = "1970" -> 1970000
    [] w = "02:35" -> 2000
    [] w = "02:36" -> 2000
    [] w = "01/02/1970" -> 1000
    [] w = "01-02-1970" -> 1000
    [] w = "06.34" -> 6340
    [] w = "6.34" -> 6340
    [] w = "06.345" -> 6345
    [] w = "6.345" -> 6345
    [] w = "126.35" -> 126350
    [] w = "048" -> 48000
    [] w = "48" -> 48000
    [] w = "000" -> 0
    [] w = "0" -> 0
    [] w = "4.1" -> 4100
    [] w = "5.2" -> 5200
    [] w = "10" -> 10000
    [] w = "10.1" -> 10100
    [] w = "8.1" -> 8100
    [] w = "124.3" -> 124300
    [] w = "2.9" -> 2900
    [] w = "128.1" -> 128100
    [] w = "33" -> 33000
    [] w = "-5" -> -5000
    [] OTHER -> NaN

\* word.replace(/^0+/, ''): "" is returned as the word "" .
stripLeadingZeros(w) ==
  CASE w = "06.34" -> "6.34"
    [] w = "06.345" -> "6.345"
    [] w = "048" -> "48"
    [] w = "000" -> ""
    [] w = "0" -> ""
    [] w = "02:35" -> "2:35"
    [] w = "02:36" -> "2:36"
    [] w = "01/02/1970" -> "1/02/1970"
    [] w = "01-02-1970" -> "1-02-1970"
    [] OTHER -> w

\* /\d{4}/ matches the word.
hasFourDigits(w) == w \in YearWords \cup SlashDates \cup DashDates

\* word.replace(/\//g, '-')
slashToDash(w) == IF w = "01/02/1970" THEN "01-02-1970" ELSE w

\* The header pattern of the table scanner matches the word.
HeaderWords ==
  {"Date", "Time", "Magnitude", "Location", "Latitude", "Longitude", "Depth"}
isHeaderWord(w) == w \in HeaderWords

(***************************************************************************)
(* Strings as sequences of words.                                          *)
(***************************************************************************)
Empty == << >>
\* A value that is not a string (undefined); calling a method on it throws.
UndefinedStr == <<"\\undefined">>
\* `${a} ${b}`
Join(a, b) == a \o b
\* `${a}T${b}`: the last word of a and the first word of b become one word.
JoinT(a, b) ==
  IF a = Empty /\ b = Empty THEN <<"T">>
  ELSE IF a = Empty THEN <<"T" \o Head(b)>> \o Tail(b)
  ELSE IF b = Empty THEN SubSeq(a, 1, Len(a) - 1) \o <<a[Len(a)] \o "T">>
  ELSE SubSeq(a, 1, Len(a) - 1) \o <<a[Len(a)] \o "T" \o Head(b)>> \o Tail(b)
\* The positions of the delimiter " - " in s.
DelimiterAt(s) == {i \in 2..(Len(s) - 1) : s[i] = "-"}
\* s.includes(' - ')
includesDelimiter(s) == DelimiterAt(s) # {}
\* s.indexOf(' - ') as a word position (0: absent)
firstDelimiter(s) ==
  IF DelimiterAt(s) = {} THEN 0
  ELSE CHOOSE i \in DelimiterAt(s) : \A j \in DelimiterAt(s) : i <= j
\* s.replace(/\//g, '-')
replaceSlashes(s) == [i \in 1..Len(s) |-> slashToDash(s[i])]
\* parseFloat(s)
parseFloat(s) == IF s = Empty THEN NaN ELSE parseFloatWord(s[1])

(***************************************************************************)
(* new Date(s).getTime() for the date and time notations of the source.    *)
(***************************************************************************)
DayMs == 86400000
MinuteMs == 60000
Minutes(w) == IF w = "02:35" THEN 155 ELSE 156
\* Milliseconds of a time of day: "02:35", "02:35 PM", "02:35 AM".
TimeOfDay(s) ==
  IF Len(s) = 1 /\ s[1] \in ClockWords THEN Minutes(s[1]) * MinuteMs
  ELSE IF Len(s) = 2 /\ s[1] \in ClockWords /\ s[2] = "AM"
    THEN Minutes(s[1]) * MinuteMs
  ELSE IF Len(s) = 2 /\ s[1] \in ClockWords /\ s[2] = "PM"
    THEN (Minutes(s[1]) + 720) * MinuteMs
  ELSE NaN
DayNumber(w) == parseFloatWord(w) \div 1000
\* Milliseconds of midnight of "16 November 1970", "01/02/1970", "01-02-1970".
DateOnly(s) ==
  IF Len(s) = 3 /\ s[1] \in DayWords /\ IsMonth(s[2]) /\ s[3] \in YearWords
    THEN ((DayNumber(s[3]) - 1970) * 365 + DaysBefore[MonthIndex(s[2])]
          + DayNumber(s[1]) - 1) * DayMs
  ELSE IF Len(s) = 1 /\ s[1] \in SlashDates \cup DashDates THEN DayMs
  ELSE NaN
DateWords(s) ==
  IF Len(s) >= 3 /\ s[1] \in DayWords THEN 3 ELSE 1
DateGetTime(s) ==
  IF s = Empty \/ s = UndefinedStr THEN NaN
  ELSE LET n == DateWords(s)
           d == DateOnly(SubSeq(s, 1, n))
           r == SubSeq(s, n + 1, Len(s))
       IN IF isNaN(d) THEN NaN
          ELSE IF r = Empty THEN d
          ELSE IF isNaN(TimeOfDay(r)) THEN NaN
          ELSE d + TimeOfDay(r)

(***************************************************************************)
(* parseDate(dateStr, timeStr), with the clock value `now` that Date.now() *)
(* returns.  The result names the timestamp returned, whether a warning    *)
(* was written and whether an exception left the function.                 *)
(***************************************************************************)
\* The parts of dateStr.split(' - ') when there is exactly one delimiter.
splitLeft(s) == SubSeq(s, 1, firstDelimiter(s) - 1)
splitRight(s) == SubSeq(s, firstDelimiter(s) + 1, Len(s))
\* Lines 21-32: the combined "date - time" notation.
parseCombined(dateStr) ==
  IF includesDelimiter(dateStr) /\ Cardinality(DelimiterAt(dateStr)) = 1
    THEN DateGetTime(Join(splitLeft(dateStr), splitRight(dateStr)))
    ELSE NaN
\* Lines 35-39: the formats tried in order.
formats(dateStr, timeStr) ==
  <<Join(dateStr, timeStr), replaceSlashes(dateStr), dateStr>>
\* Lines 49-63: the 'T' join and the blank join, only with a time string.
isoAttempts(dateStr, timeStr) ==
  IF timeStr = Empty THEN << >>
  ELSE <<JoinT(dateStr, timeStr), Join(dateStr, timeStr)>>
\* All attempts after the combined one, in the order of the code.
attempts(dateStr, timeStr) ==
  formats(dateStr, timeStr) \o isoAttempts(dateStr, timeStr)
\* The first attempt that gives a valid date (0: none).
firstValid(as) ==
  IF \E i \in 1..Len(as) : ~isNaN(DateGetTime(as[i]))
    THEN CHOOSE i \in 1..Len(as) :
           /\ ~isNaN(DateGetTime(as[i]))
           /\ \A j \in 1..(i - 1) : isNaN(DateGetTime(as[j]))
    ELSE 0
\* The body of the try block throws: a method is called on a non-string.
parseThrows(dateStr, timeStr) == dateStr = UndefinedStr
\* A catch block that throws the exception again.
parseCatch_Rethrow(now) == [time |-> NaN, warned |-> FALSE, escaped |-> TRUE]
\* What the catch block does with an exception of the try block.
parseCatch(now) == [time |-> now, warned |-> TRUE, escaped |-> FALSE]
parseDate(dateStr, timeStr, now) ==
  IF parseThrows(dateStr, timeStr) THEN parseCatch(now)
  ELSE IF ~isNaN(parseCombined(dateStr))
    THEN [time |-> parseCombined(dateStr), warned |-> FALSE,
          escaped |-> FALSE]
  ELSE LET as == attempts(dateStr, timeStr)
           k == firstValid(as)
       IN IF k # 0
            THEN [time |-> DateGetTime(as[k]), warned |-> FALSE,
                  escaped |-> FALSE]
            ELSE [time |-> now, warned |-> TRUE, escaped |-> FALSE]

\* parseDate of the serverless handler (src/api/earthquakes.ts, lines
\* 12-39): the three formats, then the 'T' join when there is a time string;
\* no combined notation, and the current time is returned in silence, by
\* the last statement of the try block as well as by the catch block.
apiAttempts(dateStr, timeStr) ==
  formats(dateStr, timeStr)
    \o (IF timeStr = Empty THEN << >> ELSE <<JoinT(dateStr, timeStr)>>)
apiParseDate(dateStr, timeStr, now) ==
  IF parseThrows(dateStr, timeStr)
    THEN [time |-> now, warned |-> FALSE, escaped |-> FALSE]
  ELSE LET as == apiAttempts(dateStr, timeStr)
           k == firstValid(as)
       IN IF k # 0
            THEN [time |-> DateGetTime(as[k]), warned |-> FALSE,
                  escaped |-> FALSE]
            ELSE [time |-> now, warned |-> FALSE, escaped |-> FALSE]

(***************************************************************************)
(* The source document: what $('table') / tr, the attribute selector and   *)
(* the script elements of the page contain.  A document is a sequence of   *)
(* items; a "table" item closes the current table and opens the next one,  *)
(* a "tr" item is a row of the current table.                              *)
(***************************************************************************)
W(w) == <<w>>
Tr(th, cells) == [kind |-> "tr", th |-> th, cells |-> cells]
\* Tier A row: "2 January 1970 - 02:35 PM", padded coordinates and depth.
RowA ==
  Tr(FALSE, << <<"2", "January", "1970", "-", "02:35", "PM">>, W("06.34"),
               W("126.35"), W("048"), W("4.1"), W("Davao") >>)
\* The same event listed again, 0.005 degrees away.
RowNear ==
  Tr(FALSE, << <<"2", "January", "1970", "-", "02:35", "PM">>, W("06.345"),
               W("126.35"), W("048"), W("4.1"), W("Davao") >>)
\* An event of the day before 1 January 1970.
RowOld ==
  Tr(FALSE, << <<"31", "December", "1969", "-", "02:35", "PM">>, W("8.1"),
               W("124.3"), W("33"), W("5.2"), W("Cebu") >>)
\* Tier B row: separate date and time cells, longitude before latitude,
\* a date the platform cannot read.
RowB ==
  Tr(FALSE, << W("N/A"), W("02:36"), W("124.3"), W("8.1"), W("33"),
               W("5.2"), W("Cebu") >>)
\* Tier A row whose latitude cell is not a number.
RowNoLat ==
  Tr(FALSE, << <<"1", "January", "1970", "-", "02:36", "PM">>, W("N/A"),
               W("126.35"), W("000"), W("4.1"), W("Davao") >>)
\* Tier A row with magnitude 10.1.
RowBadMag ==
  Tr(FALSE, << <<"2", "January", "1970", "-", "02:35", "PM">>, W("06.34"),
               W("126.35"), W("048"), W("10.1"), W("Davao") >>)
\* The header row of the bulletin.
RowHeader ==
  Tr(TRUE, << <<"Date", "-", "Time">>, W("Latitude"), W("Longitude"),
              W("Depth"), W("Magnitude"), W("Location") >>)
RowMenu == {RowA, RowNear, RowOld, RowB, RowNoLat, RowBadMag, RowHeader}
TableBreak == [kind |-> "table"]

\* An element selected by class or id; m, lat, lon, depth are the numbers
\* captured by the four label patterns, NoMatch when a pattern finds nothing.
NoMatch == -1999999999
Elem(m, lat, lon, depth) ==
  [kind |-> "elem", m |-> m, lat |-> lat, lon |-> lon, depth |-> depth]
\* "magnitude: 5.2, lat: 8.1, lon: 124.3"
ElemFull == Elem(5200, 8100, 124300, NoMatch)
\* "magnitude: 4.1"
ElemMagOnly == Elem(4100, NoMatch, NoMatch, NoMatch)
\* "magnitude: 10, lat: 8.1, lon: 124.3, depth: 33"
ElemTen == Elem(10000, 8100, 124300, 33000)
\* "magnitude: 10, lat: 8.1, lon: 124.3"
ElemTenPlain == Elem(10000, 8100, 124300, NoMatch)
ElemMenu == {ElemFull, ElemMagOnly, ElemTen, ElemTenPlain}

\* A script element: valid says that the text matched by the array pattern
\* is JSON; items are the objects of the array.  A key that is absent has
\* the value 0; a time that is not a date notation has the value NaN.
Item(magnitude, mag, latitude, lat, longitude, lon, lng, depth, time) ==
  [magnitude |-> magnitude, mag |-> mag, latitude |-> latitude, lat |-> lat,
   longitude |-> longitude, lon |-> lon, lng |-> lng, depth |-> depth,
   time |-> time]
Script(valid, items) == [kind |-> "script", valid |-> valid, items |-> items]
ItemFull == Item(5200, 0, 8100, 0, 124300, 0, 0, 33000, 138900000)
\* {"mag": 4.1, "lat": 6.34, "time": "yesterday"}
ItemAlias == Item(0, 4100, 0, 6340, 0, 0, 0, 0, NaN)
ScriptOne == Script(TRUE, <<ItemFull>>)
ScriptTwo == Script(TRUE, <<ItemFull, ItemAlias>>)
ScriptBroken == Script(FALSE, <<ItemFull>>)
ScriptMenu == {ScriptOne, ScriptTwo, ScriptBroken}

ItemMenu == RowMenu \cup {TableBreak} \cup ElemMenu \cup ScriptMenu
RECURSIVE SeqsUpTo(_, _)
SeqsUpTo(S, n) ==
  IF n = 0 THEN {<< >>}
  ELSE LET shorter == SeqsUpTo(S, n - 1)
       IN shorter \cup {Append(d, x) : d \in {e \in shorter : Len(e) = n - 1},
                                       x \in S}
\* Each selector takes the items of its kind in document order and no code
\* looks at the order of items of different kinds, so the documents list
\* the table rows first, then the selected elements, then the scripts.
kindRank(x) == IF x.kind = "elem" THEN 2 ELSE IF x.kind = "script" THEN 3 ELSE 1
Docs ==
  {d \in SeqsUpTo(ItemMenu, MaxItems) :
     \A i \in 1..Len(d) : \A j \in i..Len(d) : kindRank(d[i]) <= kindRank(d[j])}
\* What a page can hold when its navigation timed out.
PartialDocs == {d \in Docs : Len(d) <= 1}
\* The page shown when nothing was loaded.
EmptyDoc == << >>

\* tables.each / rows.each: the rows with their table and row index.
RECURSIVE tableRows(_, _, _)
tableRows(doc, tableIndex, rowIndex) ==
  IF doc = << >> THEN << >>
  ELSE IF Head(doc).kind = "table"
    THEN tableRows(Tail(doc), tableIndex + 1, 0)
  ELSE IF Head(doc).kind = "tr"
    THEN <<[tableIndex |-> tableIndex, rowIndex |-> rowIndex,
            row |-> Head(doc)]>>
         \o tableRows(Tail(doc), tableIndex, rowIndex + 1)
  ELSE tableRows(Tail(doc), tableIndex, rowIndex)
\* The elements selected by [class*="earthquake"], [id*="earthquake"], ...
IsElem(x) == x.kind = "elem"
earthquakeDivs(doc) == SelectSeq(doc, IsElem)
\* document.querySelectorAll('script')
IsScript(x) == x.kind = "script"
scripts(doc) == SelectSeq(doc, IsScript)

(***************************************************************************)
(* The row field extractor (lines 345-510).  cellTexts is the sequence of  *)
(* the trimmed cell texts of one row, indexed from 1.                      *)
(***************************************************************************)
\* s.replace(/^0+/, '')
stripZeros(s) ==
  IF s = Empty THEN Empty
  ELSE IF stripLeadingZeros(s[1]) = "" THEN Tail(s)
  ELSE <<stripLeadingZeros(s[1])>> \o Tail(s)
\* A parse of the stripped text alone.
parsePadded_NoFallback(s) == parseFloat(stripZeros(s))
\* parseFloat(s.replace(/^0+/, '')) || parseFloat(s)
parsePadded(s) == OrElse(parseFloat(stripZeros(s)), parseFloat(s))
\* parseFloat(cell || '0')
parseOrZero(s) == IF s = Empty THEN 0 ELSE parseFloat(s)
\* cellTexts[i] || '' for a 0-based index i that may lie outside the row
cellOrEmpty(cellTexts, i) ==
  IF i + 1 <= Len(cellTexts) THEN cellTexts[i + 1] ELSE Empty
\* cellTexts.slice(i).join(' '): the blank between two cells is kept when
\* a cell is empty, so an empty cell next to another cell is an empty word.
RECURSIVE joinCells(_, _)
joinCells(cellTexts, i) ==
  IF i + 1 > Len(cellTexts) THEN << >>
  ELSE (IF cellTexts[i + 1] = Empty THEN <<"">> ELSE cellTexts[i + 1])
       \o joinCells(cellTexts, i + 1)
joinFrom(cellTexts, i) ==
  IF i + 1 > Len(cellTexts) THEN Empty
  ELSE IF i + 1 = Len(cellTexts) THEN cellTexts[i + 1]
  ELSE joinCells(cellTexts, i)
LatBand(v) == Ge(v, 3000) /\ Le(v, 22000)
LonBand(v) == Ge(v, 115000) /\ Le(v, 128000)
\* The fields before any column arrangement is tried (lines 345-351).
blankFields ==
  [dateStr |-> Empty, timeStr |-> Empty, magnitude |-> 0, latitude |-> 0,
   longitude |-> 0, depth |-> 0, place |-> Empty]
\* Lines 355-367: the first cell whose number lies in (0, 10).
magnitudeCells(cellTexts) ==
  {i \in 1..Len(cellTexts) :
     Gt(parseFloat(cellTexts[i]), 0) /\ Lt(parseFloat(cellTexts[i]), 10000)}
searchMagnitude(cellTexts) ==
  IF magnitudeCells(cellTexts) = {} THEN blankFields
  ELSE LET i == CHOOSE k \in magnitudeCells(cellTexts) :
                  \A j \in magnitudeCells(cellTexts) : k <= j
       IN [blankFields EXCEPT
             !.magnitude = parseFloat(cellTexts[i]),
             !.dateStr = IF i > 1 THEN cellOrEmpty(cellTexts, 0) ELSE Empty,
             !.timeStr = IF i > 1 THEN cellOrEmpty(cellTexts, 1) ELSE Empty]
\* Lines 377-381: the first cell holds a month name or four digits.
hasMonthOrYear(firstCell) ==
  \E i \in 1..Len(firstCell) : IsMonth(firstCell[i]) \/ hasFourDigits(firstCell[i])
\* Lines 384-398: date and time of a combined first cell.
combinedDate(firstCell) ==
  IF firstDelimiter(firstCell) > 0
    THEN SubSeq(firstCell, 1, firstDelimiter(firstCell) - 1)
  ELSE IF Len(firstCell) >= 4 THEN SubSeq(firstCell, 1, 3)
  ELSE firstCell
combinedTime(firstCell) ==
  IF firstDelimiter(firstCell) > 0
    THEN SubSeq(firstCell, firstDelimiter(firstCell) + 1, Len(firstCell))
  ELSE IF Len(firstCell) >= 4 THEN SubSeq(firstCell, 4, Len(firstCell))
  ELSE Empty
\* Lines 382-409: date/time, latitude, longitude, depth, magnitude, place.
tierA(f, cellTexts) ==
  [f EXCEPT
     !.dateStr = combinedDate(cellTexts[1]),
     !.timeStr = combinedTime(cellTexts[1]),
     !.latitude = parsePadded(cellTexts[2]),
     !.longitude = parsePadded(cellTexts[3]),
     !.depth = parsePadded(cellTexts[4]),
     !.magnitude = parseFloat(cellTexts[5]),
     !.place = IF cellTexts[6] # Empty THEN cellTexts[6]
               ELSE joinFrom(cellTexts, 5)]
\* values.filter((_, idx) => idx !== i && idx !== j)
remainingValues(values, i, j) ==
  LET keep == {k \in 1..Len(values) : k # i /\ k # j}
      F[k \in 0..Len(values)] ==
        IF k = 0 THEN << >>
        ELSE IF k \in keep THEN Append(F[k - 1], values[k]) ELSE F[k - 1]
  IN F[Len(values)]
\* Lines 434-449: try all pairs of the numbers that are neither NaN nor 0.
IsValue(v) == ~isNaN(v) /\ v # 0
tryAllCombinations(f, vals) ==
  LET values == SelectSeq(vals, IsValue)
      pairs == {p \in (1..Len(values)) \X (1..Len(values)) :
                  p[1] # p[2] /\ LatBand(values[p[1]]) /\ LonBand(values[p[2]])}
  IN IF pairs = {} THEN f
     ELSE LET p == CHOOSE q \in pairs : \A r \in pairs :
                     q[1] < r[1] \/ (q[1] = r[1] /\ q[2] <= r[2])
              remaining == remainingValues(values, p[1], p[2])
          IN [f EXCEPT
                !.latitude = values[p[1]],
                !.longitude = values[p[2]],
                !.depth = IF Len(remaining) >= 1 THEN remaining[1] ELSE @,
                !.magnitude = IF Len(remaining) >= 2 THEN remaining[2] ELSE @]
\* Lines 411-452: separate date and time cells; coordinates by band.
tierB(f, cellTexts) ==
  LET val1 == parseOrZero(cellOrEmpty(cellTexts, 2))
      val2 == parseOrZero(cellOrEmpty(cellTexts, 3))
      val3 == parseOrZero(cellOrEmpty(cellTexts, 4))
      val4 == parseOrZero(cellOrEmpty(cellTexts, 5))
      g == [f EXCEPT !.dateStr = cellTexts[1],
                     !.timeStr = cellOrEmpty(cellTexts, 1)]
      h == IF LatBand(val1) /\ LonBand(val2)
             THEN [g EXCEPT !.latitude = val1, !.longitude = val2,
                            !.depth = val3, !.magnitude = val4]
           ELSE IF LatBand(val2) /\ LonBand(val1)
             THEN [g EXCEPT !.latitude = val2, !.longitude = val1,
                            !.depth = val3, !.magnitude = val4]
           ELSE tryAllCombinations(g, <<val1, val2, val3, val4>>)
  IN [h EXCEPT !.place = IF cellTexts[Len(cellTexts)] # Empty
                           THEN cellTexts[Len(cellTexts)] ELSE W("Unknown")]
\* firstCell.split(/\s+-\s+|\s+/)
IsNotDash(w) == w # "-"
splitDateTime(firstCell) ==
  IF Len(firstCell) <= 2 THEN firstCell
  ELSE <<firstCell[1]>>
       \o SelectSeq(SubSeq(firstCell, 2, Len(firstCell) - 1), IsNotDash)
       \o <<firstCell[Len(firstCell)]>>
\* Lines 454-475: rows of five cells.
tierC(f, cellTexts) ==
  LET firstCell == cellTexts[1]
      parts == splitDateTime(firstCell)
  IN IF (\E i \in 1..Len(firstCell) :
           firstCell[i] = "November" \/ hasFourDigits(firstCell[i]))
       THEN [f EXCEPT
               !.dateStr = SubSeq(parts, 1, IF Len(parts) < 3 THEN Len(parts) ELSE 3),
               !.timeStr = SubSeq(parts, 4, Len(parts)),
               !.latitude = parseFloat(cellTexts[2]),
               !.longitude = parseFloat(cellTexts[3]),
               !.depth = parseFloat(cellTexts[4]),
               !.magnitude = parseFloat(cellTexts[5]),
               !.place = W("Philippines")]
       ELSE [f EXCEPT
               !.dateStr = cellTexts[1],
               !.timeStr = cellTexts[2],
               !.latitude = parseFloat(cellTexts[3]),
               !.longitude = parseFloat(cellTexts[4]),
               !.magnitude = parseFloat(cellTexts[5]),
               !.place = W("Philippines")]
\* Lines 476-510: rows of three or four cells, numbers classified by band.
tierD(f, cellTexts) ==
  LET nums == [i \in 1..Len(cellTexts) |-> parseFloat(cellTexts[i])]
      potentialLats == SelectSeq(nums, LatBand)
      potentialLons == SelectSeq(nums, LonBand)
      IsDepth(v) == ~LatBand(v) /\ ~LonBand(v) /\ Gt(v, 0) /\ Lt(v, 100000)
      depths == SelectSeq(nums, IsDepth)
  IN [f EXCEPT
        !.depth = IF @ = 0 /\ depths # << >> THEN depths[1] ELSE @,
        !.latitude = IF potentialLats # << >> /\ @ = 0
                       THEN potentialLats[1] ELSE @,
        !.longitude = IF potentialLons # << >> /\ @ = 0
                        THEN potentialLons[1] ELSE @,
        !.dateStr = IF @ = Empty THEN cellTexts[1] ELSE @,
        !.timeStr = IF @ = Empty THEN cellTexts[2] ELSE @,
        !.place = IF @ # Empty THEN @
                  ELSE IF cellTexts[Len(cellTexts)] # Empty
                    THEN cellTexts[Len(cellTexts)] ELSE W("Unknown")]
\* Lines 345-510 as a whole.
extractFields(cellTexts) ==
  LET f == searchMagnitude(cellTexts)
  IN IF Len(cellTexts) >= 6
       THEN IF hasMonthOrYear(cellTexts[1]) THEN tierA(f, cellTexts)
            ELSE tierB(f, cellTexts)
     ELSE IF Len(cellTexts) >= 5 THEN tierC(f, cellTexts)
     ELSE IF Len(cellTexts) >= 3 THEN tierD(f, cellTexts)
     ELSE f

(***************************************************************************)
(* Validation and record construction of the three strategies.             *)
(***************************************************************************)
\* Lines 516-522.
invalidMagnitude(magnitude) ==
  magnitude = 0 \/ isNaN(magnitude) \/ Lt(magnitude, 0) \/ Gt(magnitude, 10000)
\* Lines 527-532.
invalidCoordinates(latitude, longitude) ==
  \/ latitude = 0 \/ longitude = 0
  \/ Lt(latitude, 3000) \/ Gt(latitude, 22000)
  \/ Lt(longitude, 115000) \/ Gt(longitude, 128000)
\* Skip test of a row (lines 330-341).
isHeader(row) ==
  row.th \/ \E i \in 1..Len(row.cells) :
              \E k \in 1..Len(row.cells[i]) : isHeaderWord(row.cells[i][k])
skipRow(row) == isHeader(row) \/ Len(row.cells) < 6
\* An id: the tag, the positions, the clock value and the random suffix that
\* the template strings put together (-1: not part of the id).
Id(tag, a, b, now, rnd) == [tag |-> tag, a |-> a, b |-> b, now |-> now, rnd |-> rnd]
\* Lines 534-547.  origin (the position of the row, element or data item in
\* its strategy's input) is not in the code; it only names where a record
\* comes from.
tableRecord(tr, n, f, now, rnd) ==
  [id |-> Id("phivolcs", tr.tableIndex, tr.rowIndex, now, rnd),
   magnitude |-> f.magnitude,
   latitude |-> OrElse(f.latitude, 0),
   longitude |-> OrElse(f.longitude, 0),
   depth |-> OrElse(f.depth, 0),
   place |-> IF f.place # Empty THEN f.place ELSE <<"Unknown", "Location">>,
   time |-> parseDate(f.dateStr, f.timeStr, now).time,
   origin |-> n]
\* The records one row adds to earthquakes (lines 325-552).
rowRecords(tr, n, now, rnd) ==
  IF skipRow(tr.row) THEN << >>
  ELSE LET f == extractFields(tr.row.cells)
       IN IF invalidMagnitude(f.magnitude) THEN << >>
          ELSE IF invalidCoordinates(f.latitude, f.longitude) THEN << >>
          ELSE <<tableRecord(tr, n, f, now, rnd)>>
\* Lines 572-585: the records one selected element adds.
matched(m) == IF m = NoMatch THEN 0 ELSE m
elemAccepted(magnitude) ==
  ~isNaN(magnitude) /\ Gt(magnitude, 0) /\ Lt(magnitude, 10000)
elemRecords(elem, index, now) ==
  IF elem.m # NoMatch /\ elemAccepted(elem.m)
    THEN <<[id |-> Id("div", index, -1, now, -1),
            magnitude |-> elem.m,
            latitude |-> matched(elem.lat),
            longitude |-> matched(elem.lon),
            depth |-> matched(elem.depth),
            place |-> W("Philippines"),
            time |-> now,
            origin |-> index + 1]>>
    ELSE << >>
\* Lines 606-610: the array pattern needs the word magnitude in the script
\* and the matched text must be JSON.
jsonItems(script) ==
  IF script.valid /\ \E i \in 1..Len(script.items) : script.items[i].magnitude # 0
    THEN script.items ELSE << >>
\* The objects visited by data.forEach over all scripts, with their index
\* in their own array (lines 603-611).
RECURSIVE indexed(_, _)
indexed(items, index) ==
  IF items = << >> THEN << >>
  ELSE <<[index |-> index, item |-> Head(items)]>> \o indexed(Tail(items), index + 1)
RECURSIVE dataItems(_)
dataItems(ss) ==
  IF ss = << >> THEN << >>
  ELSE indexed(jsonItems(Head(ss)), 0) \o dataItems(Tail(ss))
\* item.time ? new Date(item.time).getTime() : Date.now(); an absent time is
\* 0, a text that is not a date notation is NaN and gives NaN.
itemTime(time, now) == IF time = 0 THEN now ELSE time
\* Lines 612-622.
itemRecords(d, n, now) ==
  IF Truthy(OrElse(d.item.magnitude, d.item.mag))
    THEN <<[id |-> Id("js", d.index, -1, now, -1),
            magnitude |-> OrElse(d.item.magnitude, OrElse(d.item.mag, 0)),
            latitude |-> OrElse(d.item.latitude, OrElse(d.item.lat, 0)),
            longitude |-> OrElse(d.item.longitude,
                                 OrElse(d.item.lon, OrElse(d.item.lng, 0))),
            depth |-> OrElse(d.item.depth, 0),
            place |-> W("Philippines"),
            time |-> itemTime(d.item.time, now),
            origin |-> n]>>
    ELSE << >>

(***************************************************************************)
(* Deduplication and ordering (lines 668-676).                             *)
(***************************************************************************)
\* self.findIndex(e => e.id === eq.id)
findIndex(self, id) == CHOOSE i \in 1..Len(self) :
  self[i].id = id /\ \A j \in 1..(i - 1) : self[j].id # id
\* earthquakes.filter((eq, index, self) => index === self.findIndex(...))
RECURSIVE filterUnique(_, _)
filterUnique(self, index) ==
  IF index > Len(self) THEN << >>
  ELSE (IF index = findIndex(self, self[index].id) THEN <<self[index]>> ELSE << >>)
       \o filterUnique(self, index + 1)
\* The comparator (a, b) => b.time - a.time puts a after b.
comesAfter(a, b) == ~isNaN(a.time) /\ ~isNaN(b.time) /\ b.time - a.time > 0
\* Array.prototype.sort is stable: a record is put behind the records that
\* the comparator does not put after it.
RECURSIVE insertSorted(_, _)
insertSorted(sorted, r) ==
  IF sorted = << >> THEN <<r>>
  ELSE IF comesAfter(Head(sorted), r) THEN <<r>> \o sorted
  ELSE <<Head(sorted)>> \o insertSorted(Tail(sorted), r)
RECURSIVE stableSort(_)
stableSort(rs) ==
  IF rs = << >> THEN << >>
  ELSE insertSorted(stableSort(SubSeq(rs, 1, Len(rs) - 1)), rs[Len(rs)])
Orderings(rs) ==
  {[i \in 1..Len(rs) |-> rs[p[i]]] :
     p \in {q \in [1..Len(rs) -> 1..Len(rs)] :
              \A i, j \in 1..Len(rs) : i # j => q[i] # q[j]}}
\* With a NaN time the comparator is not consistent and the order that sort
\* leaves is up to the engine.
sortOutcomes(rs) ==
  IF \E i \in 1..Len(rs) : isNaN(rs[i].time) THEN Orderings(rs)
  ELSE {stableSort(rs)}

(***************************************************************************)
(* scrapePHIVOLCS as a state machine.  pc is the position of the call: the *)
(* awaited operation or the loop it is in.                                 *)
(***************************************************************************)
VARIABLES
  pc,            \* position of the call
  envPath,       \* process.env.PUPPETEER_EXECUTABLE_PATH is set
  browser,       \* "none", "open" or "closed"
  launches,      \* the launch attempts made, in order
  nav,           \* the outcomes of page.goto, in order
  response,      \* "none", "ok" or "null"
  doc,           \* the document in the page
  cursor,        \* position in the rows, elements or data items
  earthquakes,   \* the array earthquakes
  jsEarthquakes, \* the array results of the script evaluation
  now,           \* the clock read by Date.now()
  ran,           \* the strategies started, in order
  result,        \* "pending", "returned" or "thrown"
  returned,      \* the sequence returned to the caller
  error,         \* the error thrown to the caller
  pd,            \* a call of parseDate on its own: arguments and result
  raised,        \* the rows in whose try block an exception was raised
  rc,            \* the extraction of one row on its own: row and result
  run,           \* two calls of scrapePHIVOLCS at once: the state of each
  arrays,        \* two calls at once: the earthquakes arrays that exist
  srv,           \* one GET /api/earthquakes request in the server
  target,        \* the arguments year and month, and the address in the page
  app,           \* the App component of the frontend
  hnd            \* one request in the serverless handler or /api/debug/html

\* The variables of the other parts of the model.
rest == <<app, hnd>>
others == <<rc, run, arrays, srv, target, rest>>
vars ==
  <<pc, envPath, browser, launches, nav, response, doc, cursor, earthquakes,
    jsEarthquakes, now, ran, result, returned, error, pd, raised, others>>

Now0 == 200000000
RandomSuffixes == 0..MaxRandom
PdOff == [state |-> "off"]
\* The parts of the model that a specification does not use stand still.
RowOff == rc = [state |-> "off"]
RunsOff == run = << >> /\ arrays = << >>
ServerOff == srv = [state |-> "off"]
\* scrapePHIVOLCS() without arguments, before any navigation.
NoTarget == [year |-> 0, month |-> 0, page |-> <<"about:blank">>]
AppOff == app = [state |-> "off"]
HandlersOff == hnd = [state |-> "off"]
RestOff == target = NoTarget /\ AppOff /\ HandlersOff

Init ==
  /\ pc = "launch"
  /\ envPath \in BOOLEAN
  /\ browser = "none"
  /\ launches = << >>
  /\ nav = << >>
  /\ response = "none"
  /\ doc = EmptyDoc
  /\ cursor = 1
  /\ earthquakes = << >>
  /\ jsEarthquakes = << >>
  /\ now = Now0
  /\ ran = << >>
  /\ result = "pending"
  /\ returned = << >>
  /\ error = "none"
  /\ pd = PdOff
  /\ raised = {}
  /\ RowOff /\ RunsOff /\ ServerOff /\ RestOff

\* Lines 81-88: the address of the latest events, and of the monthly
\* archive when both year and month are truthy.  The month name is that of
\* new Date(2000, month - 1).
LatestUrl == <<"https://earthquake.phivolcs.dost.gov.ph/">>
monthName(month) == MonthNames[((month - 1) % 12) + 1]
MonthlyUrl(year, name) == <<"EQLatest-Monthly", year, name>>
targetUrl(year, month) ==
  IF year # 0 /\ month # 0 THEN MonthlyUrl(year, monthName(month))
  ELSE LatestUrl
\* Line 240: the address of the second page.goto.
retryUrl(year, month) == LatestUrl

\* The catch block of lines 678-698: the error thrown for a message.
rethrown(message) ==
  IF message = "timeout" THEN "Request timeout"
  ELSE IF message = "net::ERR" THEN "Network error"
  ELSE IF message = "Failed to launch browser" THEN "Browser launch error"
  ELSE "Failed to scrape PHIVOLCS"
\* throw inside the outer try: catch, rethrow, then the finally block.
Throw(message) ==
  /\ result' = "thrown"
  /\ error' = rethrown(message)
  /\ returned' = << >>
  /\ pc' = "finally"

\* A ladder that goes from the default launch straight to the install
\* script.
afterDefaultFailure_SkipEnvPath(env) == "install"
\* Lines 144-157: after a failed default launch the launch with
\* PUPPETEER_EXECUTABLE_PATH comes next when the variable is set, otherwise
\* the install script.
afterDefaultFailure(env) == IF env THEN "envLaunch" ELSE "install"
\* Lines 131-134: puppeteer.launch(launchOptions).
LaunchDefault ==
  /\ pc = "launch"
  /\ launches' = Append(launches, "default")
  /\ \E ok \in BOOLEAN :
       IF ok THEN browser' = "open" /\ pc' = "newPage"
       ELSE browser' = browser /\ pc' = afterDefaultFailure(envPath)
  /\ UNCHANGED <<envPath, nav, response, doc, cursor, earthquakes,
                 jsEarthquakes, now, ran, result, returned, error, pd, raised, others>>
\* Lines 145-154: launch with PUPPETEER_EXECUTABLE_PATH.
LaunchEnvPath ==
  /\ pc = "envLaunch"
  /\ launches' = Append(launches, "envPath")
  /\ \E ok \in BOOLEAN :
       IF ok THEN browser' = "open" /\ pc' = "newPage"
       ELSE browser' = browser /\ pc' = "install"
  /\ UNCHANGED <<envPath, nav, response, doc, cursor, earthquakes,
                 jsEarthquakes, now, ran, result, returned, error, pd, raised, others>>
\* Lines 157-196: install script, launch again; without a browser the error
\* of line 173 is rethrown by lines 176-196 and by the outer catch.
LaunchAfterInstall ==
  /\ pc = "install"
  /\ \E installed \in BOOLEAN, ok \in BOOLEAN :
       IF installed /\ ok
         THEN /\ launches' = Append(launches, "install")
              /\ browser' = "open"
              /\ pc' = "newPage"
              /\ UNCHANGED <<result, returned, error>>
         ELSE /\ launches' = IF installed THEN Append(launches, "install")
                             ELSE launches
              /\ browser' = browser
              /\ Throw("Failed to launch browser")
  /\ UNCHANGED <<envPath, nav, response, doc, cursor, earthquakes,
                 jsEarthquakes, now, ran, pd, raised, others>>
\* Lines 198-221: browser.newPage() and the page set-up.
NewPage ==
  /\ pc = "newPage"
  /\ pc' = "goto"
  /\ UNCHANGED <<envPath, browser, launches, nav, response, doc, cursor,
                 earthquakes, jsEarthquakes, now, ran, result, returned,
                 error, pd, raised, others>>
\* Lines 225-252: page.goto(targetUrl).  A navigation that times out leaves
\* whatever the page had loaded; a network error leaves the empty page.
\* docs and partial are the documents the site can serve.
NavigateIn(docs, partial) ==
  /\ pc = "goto"
  /\ \E outcome \in {"ok", "proxy", "timeout", "net::ERR"} :
       /\ nav' = Append(nav, outcome)
       /\ CASE outcome = "ok" ->
                 /\ response' = "ok" /\ doc' \in docs /\ pc' = "content"
                 /\ target' = [target EXCEPT
                                 !.page = targetUrl(target.year, target.month)]
            [] outcome = "proxy" ->
                 /\ response' = response /\ doc' = doc /\ pc' = "retry"
                 /\ target' = target
            [] outcome = "timeout" ->
                 /\ response' = "null" /\ doc' \in partial /\ pc' = "content"
                 /\ target' = [target EXCEPT
                                 !.page = targetUrl(target.year, target.month)]
            [] outcome = "net::ERR" ->
                 /\ response' = "null" /\ doc' = EmptyDoc /\ pc' = "content"
                 /\ target' = target
  /\ UNCHANGED <<envPath, browser, launches, cursor, earthquakes,
                 jsEarthquakes, now, ran, result, returned, error, pd, raised,
                 rc, run, arrays, srv, rest>>
Navigate == NavigateIn(Docs, PartialDocs)
\* Lines 236-247: the second page.goto after a proxy error.
NavigateRetryIn(docs) ==
  /\ pc = "retry"
  /\ \E ok \in BOOLEAN :
       IF ok
         THEN /\ nav' = Append(nav, "ok")
              /\ response' = "ok" /\ doc' \in docs /\ pc' = "content"
              /\ target' = [target EXCEPT
                              !.page = retryUrl(target.year, target.month)]
              /\ UNCHANGED <<result, returned, error>>
         ELSE /\ nav' = Append(nav, "failed")
              /\ response' = response /\ doc' = doc
              /\ target' = target
              /\ Throw("Proxy error")
  /\ UNCHANGED <<envPath, browser, launches, cursor, earthquakes,
                 jsEarthquakes, now, ran, pd, raised,
                 rc, run, arrays, srv, rest>>
NavigateRetry == NavigateRetryIn(Docs)
\* Lines 254-294: the waits, page.content() and cheerio.load; Method 1
\* starts.  A failure of page.content() is thrown again by line 286.
GetContent ==
  /\ pc = "content"
  /\ \E ok \in BOOLEAN :
       IF ok
         THEN /\ pc' = "tables" /\ cursor' = 1 /\ ran' = Append(ran, "tables")
              /\ UNCHANGED <<result, returned, error>>
         ELSE /\ Throw("Failed to extract page content")
              /\ UNCHANGED <<cursor, ran>>
  /\ UNCHANGED <<envPath, browser, launches, nav, response, doc, earthquakes,
                 jsEarthquakes, now, pd, raised, others>>
\* The clock advances while the document is processed.
Tick ==
  /\ pc \in {"tables", "elements", "scripts"}
  /\ now < Now0 + MaxTicks
  /\ now' = now + 1
  /\ UNCHANGED <<pc, envPath, browser, launches, nav, response, doc, cursor,
                 earthquakes, jsEarthquakes, ran, result, returned, error, pd, raised, others>>

\* A scraper that starts the next strategy whatever was found.
afterStrategy_Always(found, next) == next
\* Where the call goes when a strategy has finished: the three tests
\* earthquakes.length === 0 of lines 558, 592 and 641.
afterStrategy(found, next) == IF found = << >> THEN next ELSE "unique"

\* A row loop without the try block: the exception leaves rows.each.
rowCatch_Rethrow(exception) == exception
\* Lines 548-551: the catch block of a row writes a log line and throws
\* nothing; rowCatch says whether the exception leaves the row.
rowCatch(exception) == FALSE
\* Method 1, one row of rows.each (lines 325-552).  faults says whether a
\* statement of the try block (lines 344-547) may raise an exception; the
\* push is the last statement, so a row that raised has added nothing.
ParseRowWith(faults) ==
  /\ pc = "tables"
  /\ cursor <= Len(tableRows(doc, 0, 0))
  /\ \E rnd \in RandomSuffixes, fault \in faults :
       LET tr == tableRows(doc, 0, 0)[cursor]
           exception == fault /\ ~skipRow(tr.row)
       IN /\ raised' = IF exception THEN raised \cup {cursor} ELSE raised
          /\ IF rowCatch(exception)
               THEN /\ Throw("exception in a row")
                    /\ UNCHANGED <<earthquakes, cursor>>
               ELSE /\ earthquakes' = earthquakes
                         \o (IF exception THEN << >>
                             ELSE rowRecords(tr, cursor, now, rnd))
                    /\ cursor' = cursor + 1
                    /\ UNCHANGED <<pc, result, returned, error>>
  /\ UNCHANGED <<envPath, browser, launches, nav, response, doc,
                 jsEarthquakes, now, ran, pd, others>>
\* The rows of the bulletin raise no exception in the try block.
ParseRow == ParseRowWith({FALSE})
\* Lines 555-563: Method 1 is over; Method 2 starts if nothing was found.
TablesDone ==
  /\ pc = "tables"
  /\ cursor > Len(tableRows(doc, 0, 0))
  /\ pc' = afterStrategy(earthquakes, "elements")
  /\ ran' = IF pc' = "elements" THEN Append(ran, "elements") ELSE ran
  /\ cursor' = 1
  /\ UNCHANGED <<envPath, browser, launches, nav, response, doc, earthquakes,
                 jsEarthquakes, now, result, returned, error, pd, raised, others>>
\* Method 2, one element of earthquakeDivs.each (lines 565-586).
SearchElement ==
  /\ pc = "elements"
  /\ cursor <= Len(earthquakeDivs(doc))
  /\ earthquakes' = earthquakes
       \o elemRecords(earthquakeDivs(doc)[cursor], cursor - 1, now)
  /\ cursor' = cursor + 1
  /\ UNCHANGED <<pc, envPath, browser, launches, nav, response, doc,
                 jsEarthquakes, now, ran, result, returned, error, pd, raised, others>>
\* Lines 588-595: Method 2 is over; Method 3 starts if nothing was found.
ElementsDone ==
  /\ pc = "elements"
  /\ cursor > Len(earthquakeDivs(doc))
  /\ pc' = afterStrategy(earthquakes, "scripts")
  /\ ran' = IF pc' = "scripts" THEN Append(ran, "scripts") ELSE ran
  /\ cursor' = 1
  /\ UNCHANGED <<envPath, browser, launches, nav, response, doc, earthquakes,
                 jsEarthquakes, now, result, returned, error, pd, raised, others>>
\* Method 3, one object of data.forEach inside page.evaluate (lines 611-623).
EvaluateItem ==
  /\ pc = "scripts"
  /\ cursor <= Len(dataItems(scripts(doc)))
  /\ jsEarthquakes' = jsEarthquakes
       \o itemRecords(dataItems(scripts(doc))[cursor], cursor, now)
  /\ cursor' = cursor + 1
  /\ UNCHANGED <<pc, envPath, browser, launches, nav, response, doc,
                 earthquakes, now, ran, result, returned, error, pd, raised, others>>
\* Lines 631-641: page.evaluate returns; its results are pushed.
ScriptsDone ==
  /\ pc = "scripts"
  /\ cursor > Len(dataItems(scripts(doc)))
  /\ earthquakes' = earthquakes \o jsEarthquakes
  /\ pc' = afterStrategy(earthquakes \o jsEarthquakes, "text")
  /\ cursor' = 1
  /\ UNCHANGED <<envPath, browser, launches, nav, response, doc,
                 jsEarthquakes, now, ran, result, returned, error, pd, raised, others>>
\* Lines 641-666: nothing was found; the page text is logged and the empty
\* array is returned.
noMatchResult == << >>
\* A scraper that throws when nothing was found.
NoMatch_Throw ==
  /\ pc = "text"
  /\ Throw("No earthquake data found")
  /\ UNCHANGED <<envPath, browser, launches, nav, response, doc, cursor,
                 earthquakes, jsEarthquakes, now, ran, pd, raised, others>>
NoMatch_Return ==
  /\ pc = "text"
  /\ result' = "returned"
  /\ returned' = noMatchResult
  /\ pc' = "finally"
  /\ UNCHANGED <<envPath, browser, launches, nav, response, doc, cursor,
                 earthquakes, jsEarthquakes, now, ran, error, pd, raised, others>>
\* Lines 668-676: remove duplicates, sort, return.
\* A scraper that keeps every record.
uniqueEarthquakes_Keep(found) == found
uniqueEarthquakes(found) == filterUnique(found, 1)
RemoveDuplicatesAndSort ==
  /\ pc = "unique"
  /\ result' = "returned"
  /\ returned' \in sortOutcomes(uniqueEarthquakes(earthquakes))
  /\ pc' = "finally"
  /\ UNCHANGED <<envPath, browser, launches, nav, response, doc, cursor,
                 earthquakes, jsEarthquakes, now, ran, error, pd, raised, others>>
\* Lines 699-708: the finally block closes the browser if there is one.
CloseBrowser ==
  /\ pc = "finally"
  /\ browser' = IF browser = "open" THEN "closed" ELSE browser
  /\ pc' = "done"
  /\ UNCHANGED <<envPath, launches, nav, response, doc, cursor, earthquakes,
                 jsEarthquakes, now, ran, result, returned, error, pd, raised, others>>

Next ==
  \/ LaunchDefault
  \/ LaunchEnvPath
  \/ LaunchAfterInstall
  \/ NewPage
  \/ Navigate
  \/ NavigateRetry
  \/ GetContent
  \/ Tick
  \/ ParseRow
  \/ TablesDone
  \/ SearchElement
  \/ ElementsDone
  \/ EvaluateItem
  \/ ScriptsDone
  \/ NoMatch_Return
  \/ RemoveDuplicatesAndSort
  \/ CloseBrowser

Spec == Init /\ [][Next]_vars

(***************************************************************************)
(* parseDate called on its own, for the properties of the function.        *)
(***************************************************************************)
PdDates ==
  {Empty, UndefinedStr, <<"N/A">>, <<"01/02/1970">>,
   <<"2", "January", "1970">>, <<"31", "December", "1969">>,
   <<"2", "January", "1970", "-", "02:35", "PM">>,
   <<"soon", "-", "02:35", "PM">>, <<"2", "January", "1970", "-", "later">>}
PdTimes == {Empty, <<"02:35", "PM">>, <<"02:36">>, <<"later">>}
InitParseDate ==
  /\ pc = "off"
  /\ envPath = FALSE
  /\ browser = "none"
  /\ launches = << >>
  /\ nav = << >>
  /\ response = "none"
  /\ doc = EmptyDoc
  /\ cursor = 1
  /\ earthquakes = << >>
  /\ jsEarthquakes = << >>
  /\ now \in Now0..(Now0 + MaxTicks)
  /\ ran = << >>
  /\ result = "pending"
  /\ returned = << >>
  /\ error = "none"
  /\ pd \in [state : {"call", "apiCall"}, dateStr : PdDates,
            timeStr : PdTimes]
  /\ raised = {}
  /\ RowOff /\ RunsOff /\ ServerOff /\ RestOff
ParseDateCall ==
  /\ pd.state = "call"
  /\ pd' = [state |-> "ret", dateStr |-> pd.dateStr, timeStr |-> pd.timeStr,
            ret |-> parseDate(pd.dateStr, pd.timeStr, now)]
  /\ UNCHANGED <<pc, envPath, browser, launches, nav, response, doc, cursor,
                 earthquakes, jsEarthquakes, now, ran, result, returned, error,
                 raised, others>>
\* The same call on parseDate of the serverless handler.
ApiParseDateCall ==
  /\ pd.state = "apiCall"
  /\ pd' = [state |-> "apiRet", dateStr |-> pd.dateStr,
            timeStr |-> pd.timeStr,
            ret |-> apiParseDate(pd.dateStr, pd.timeStr, now)]
  /\ UNCHANGED <<pc, envPath, browser, launches, nav, response, doc, cursor,
                 earthquakes, jsEarthquakes, now, ran, result, returned, error,
                 raised, others>>
NextParseDate == ParseDateCall \/ ApiParseDateCall
SpecParseDate == InitParseDate /\ [][NextParseDate]_vars

(***************************************************************************)
(* The tabular strategy from the moment the document has been loaded, on   *)
(* documents of table rows, with exceptions in the rows' try blocks.       *)
(***************************************************************************)
\* Tier A row whose depth cell reads "-5".
RowNegDepth ==
  Tr(FALSE, << <<"2", "January", "1970", "-", "02:35", "PM">>, W("06.34"),
               W("126.35"), W("-5"), W("4.1"), W("Davao") >>)
\* Tier A row whose depth cell is not a number.
RowNoDepth ==
  Tr(FALSE, << <<"2", "January", "1970", "-", "02:35", "PM">>, W("06.34"),
               W("126.35"), W("N/A"), W("4.1"), W("Davao") >>)
TableItems == {RowA, RowOld, RowNegDepth, RowNoDepth, RowHeader, TableBreak}
TableDocs == SeqsUpTo(TableItems, MaxItems)
\* The state after lines 74-294 when the launch, the navigation and
\* page.content() have succeeded.
InitTables ==
  /\ pc = "tables"
  /\ envPath = FALSE
  /\ browser = "open"
  /\ launches = <<"default">>
  /\ nav = <<"ok">>
  /\ response = "ok"
  /\ doc \in TableDocs
  /\ cursor = 1
  /\ earthquakes = << >>
  /\ jsEarthquakes = << >>
  /\ now = Now0
  /\ ran = <<"tables">>
  /\ result = "pending"
  /\ returned = << >>
  /\ error = "none"
  /\ pd = PdOff
  /\ raised = {}
  /\ RowOff /\ RunsOff /\ ServerOff /\ RestOff
\* One row of rows.each; a statement of its try block may raise.
ParseRowOrRaise == ParseRowWith(BOOLEAN)
NextTables ==
  \/ Tick
  \/ ParseRowOrRaise
  \/ TablesDone
  \/ ElementsDone
  \/ ScriptsDone
  \/ NoMatch_Return
  \/ RemoveDuplicatesAndSort
  \/ CloseBrowser
SpecTables == InitTables /\ [][NextTables]_vars

(***************************************************************************)
(* One row of rows.each on its own (lines 325-552), for the properties of  *)
(* the field extractor and of the validation.                              *)
(***************************************************************************)
DateTimeCell == <<"2", "January", "1970", "-", "02:35", "PM">>
NumberCells ==
  {W("06.34"), W("124.3"), W("048"), W("4.1"), W("0"), W("000"), W("N/A"),
   W("10.1"), W("2.9"), W("128.1"), W("-5")}
ShortCells == {W("06.34"), W("124.3"), W("048"), W("4.1")}
\* Date-time | latitude | longitude | depth | magnitude | location, with
\* a location, with an empty location and with two empty last cells.
TierARows ==
  {<<DateTimeCell, a, b, c, d>> \o p :
     a \in NumberCells, b \in NumberCells, c \in NumberCells,
     d \in NumberCells, p \in {<<W("Davao")>>, <<Empty>>, <<Empty, Empty>>}}
\* Date | time | four numbers | location.
TierBRows ==
  {<<W("N/A"), W("02:36"), a, b, c, d, p>> :
     a \in NumberCells, b \in NumberCells, c \in NumberCells,
     d \in NumberCells, p \in {W("Cebu"), Empty}}
\* Rows of five, four, three and two cells.
ShortRows ==
  {<<DateTimeCell, a, b, c, d>> :
     a \in ShortCells, b \in ShortCells, c \in ShortCells, d \in ShortCells}
  \cup {<<W("N/A"), a, b, c>> :
          a \in ShortCells, b \in ShortCells, c \in ShortCells}
  \cup {<<a, b, c>> : a \in ShortCells, b \in ShortCells, c \in ShortCells}
  \cup {<<a, b>> : a \in ShortCells, b \in ShortCells}
RowCells == TierARows \cup TierBRows \cup ShortRows
InitRow ==
  /\ pc = "off"
  /\ envPath = FALSE
  /\ browser = "none"
  /\ launches = << >>
  /\ nav = << >>
  /\ response = "none"
  /\ doc = EmptyDoc
  /\ cursor = 1
  /\ earthquakes = << >>
  /\ jsEarthquakes = << >>
  /\ now = Now0
  /\ ran = << >>
  /\ result = "pending"
  /\ returned = << >>
  /\ error = "none"
  /\ pd = PdOff
  /\ raised = {}
  /\ rc \in [state : {"call"}, cells : RowCells]
  /\ RunsOff /\ ServerOff /\ RestOff
\* The callback of rows.each on a row of td cells: the fields the extractor
\* assigns when the row is not skipped, and the records the row adds.
ExtractRow ==
  /\ rc.state = "call"
  /\ LET row == Tr(FALSE, rc.cells)
         tr == [tableIndex |-> 0, rowIndex |-> 0, row |-> row]
     IN rc' = [state |-> "ret", cells |-> rc.cells,
               skipped |-> skipRow(row),
               fields |-> extractFields(rc.cells),
               records |-> rowRecords(tr, 1, now, 0)]
  /\ UNCHANGED <<pc, envPath, browser, launches, nav, response, doc, cursor,
                 earthquakes, jsEarthquakes, now, ran, result, returned, error,
                 pd, raised, run, arrays, srv, target, rest>>
NextRow == ExtractRow
SpecRow == InitRow /\ [][NextRow]_vars

(***************************************************************************)
(* Two calls of scrapePHIVOLCS at once.  Each await and each callback of   *)
(* a loop is a step; the steps of the two calls interleave.  A call is     *)
(* followed from the moment its document has been loaded.  The clock       *)
(* stands still, so that a call reads the same time as it would alone.     *)
(***************************************************************************)
Runs == {1, 2}
RunItems == {RowA, ElemFull, ScriptTwo}
RunDocs == {d \in Docs : \A i \in 1..Len(d) : d[i] \in RunItems}
\* The variables of one call of the scraper.
scraperVars ==
  <<pc, envPath, browser, launches, nav, response, doc, cursor, earthquakes,
    jsEarthquakes, now, ran, result, returned, error>>
\* An array that all calls use.
scopeOf_Shared(r) == 1
\* Line 289: const earthquakes = [] in the body of the function; the array
\* of call r is an array of its own.
scopeOf(r) == r
InitRuns ==
  /\ pc = "off"
  /\ envPath = FALSE
  /\ browser = "none"
  /\ launches = << >>
  /\ nav = << >>
  /\ response = "none"
  /\ doc = EmptyDoc
  /\ cursor = 1
  /\ earthquakes = << >>
  /\ jsEarthquakes = << >>
  /\ now = Now0
  /\ ran = << >>
  /\ result = "pending"
  /\ returned = << >>
  /\ error = "none"
  /\ pd = PdOff
  /\ raised = {}
  /\ RowOff /\ ServerOff /\ RestOff
  /\ \E d1 \in RunDocs, d2 \in RunDocs :
       run = [r \in Runs |->
                [pc |-> "tables", doc |-> IF r = 1 THEN d1 ELSE d2,
                 cursor |-> 1, js |-> << >>, returned |-> << >>,
                 overlapped |-> FALSE]]
  /\ arrays = [r \in Runs |-> << >>]
\* The other call is between its first step and its return.
otherActive(r) ==
  LET o == run[3 - r]
  IN o.pc # "done" /\ (o.pc # "tables" \/ o.cursor > 1)
\* A step of call r: its position, cursor, script results and array.
RunStep(r, newPc, newCursor, newJs, newArray) ==
  /\ run' = [run EXCEPT ![r] =
               [@ EXCEPT !.pc = newPc, !.cursor = newCursor, !.js = newJs,
                         !.overlapped = @ \/ otherActive(r)]]
  /\ arrays' = [arrays EXCEPT ![scopeOf(r)] = newArray]
  /\ UNCHANGED <<scraperVars, pd, raised, rc, srv, target, rest>>
\* Lines 325-552 in call r.
RunParseRow(r) ==
  /\ run[r].pc = "tables"
  /\ run[r].cursor <= Len(tableRows(run[r].doc, 0, 0))
  /\ \E rnd \in RandomSuffixes :
       RunStep(r, "tables", run[r].cursor + 1, run[r].js,
               arrays[scopeOf(r)]
                 \o rowRecords(tableRows(run[r].doc, 0, 0)[run[r].cursor],
                               run[r].cursor, now, rnd))
\* Lines 555-563 in call r.
RunTablesDone(r) ==
  /\ run[r].pc = "tables"
  /\ run[r].cursor > Len(tableRows(run[r].doc, 0, 0))
  /\ RunStep(r, afterStrategy(arrays[scopeOf(r)], "elements"), 1, run[r].js,
             arrays[scopeOf(r)])
\* Lines 565-586 in call r.
RunSearchElement(r) ==
  /\ run[r].pc = "elements"
  /\ run[r].cursor <= Len(earthquakeDivs(run[r].doc))
  /\ RunStep(r, "elements", run[r].cursor + 1, run[r].js,
             arrays[scopeOf(r)]
               \o elemRecords(earthquakeDivs(run[r].doc)[run[r].cursor],
                              run[r].cursor - 1, now))
\* Lines 588-595 in call r.
RunElementsDone(r) ==
  /\ run[r].pc = "elements"
  /\ run[r].cursor > Len(earthquakeDivs(run[r].doc))
  /\ RunStep(r, afterStrategy(arrays[scopeOf(r)], "scripts"), 1, run[r].js,
             arrays[scopeOf(r)])
\* Lines 611-623 in the page of call r.
RunEvaluateItem(r) ==
  /\ run[r].pc = "scripts"
  /\ run[r].cursor <= Len(dataItems(scripts(run[r].doc)))
  /\ RunStep(r, "scripts", run[r].cursor + 1,
             run[r].js
               \o itemRecords(dataItems(scripts(run[r].doc))[run[r].cursor],
                              run[r].cursor, now),
             arrays[scopeOf(r)])
\* Lines 631-641 in call r.
RunScriptsDone(r) ==
  /\ run[r].pc = "scripts"
  /\ run[r].cursor > Len(dataItems(scripts(run[r].doc)))
  /\ RunStep(r, afterStrategy(arrays[scopeOf(r)] \o run[r].js, "text"), 1,
             run[r].js, arrays[scopeOf(r)] \o run[r].js)
\* Lines 641-708 in call r: the return value and the finally block, which
\* closes the browser of the call (line 75).
RunReturn(r) ==
  /\ run[r].pc \in {"text", "unique"}
  /\ \E sorted \in (IF run[r].pc = "text" THEN {noMatchResult}
                     ELSE sortOutcomes(uniqueEarthquakes(arrays[scopeOf(r)]))) :
       run' = [run EXCEPT ![r] =
                 [@ EXCEPT !.pc = "done", !.returned = sorted,
                           !.overlapped = @ \/ otherActive(r)]]
  /\ UNCHANGED <<scraperVars, pd, raised, rc, arrays, srv, target, rest>>
NextRuns ==
  \E r \in Runs :
    \/ RunParseRow(r)
    \/ RunTablesDone(r)
    \/ RunSearchElement(r)
    \/ RunElementsDone(r)
    \/ RunEvaluateItem(r)
    \/ RunScriptsDone(r)
    \/ RunReturn(r)
SpecRuns == InitRuns /\ [][NextRuns]_vars

(***************************************************************************)
(* scrapePHIVOLCS(year, month) from the navigation on, for the address the *)
(* records come from.  0 stands for an argument that was not given.        *)
(***************************************************************************)
Years == {0, 2025}
Months == {0, 1, 11}
InitArchive ==
  /\ pc = "goto"
  /\ envPath = FALSE
  /\ browser = "open"
  /\ launches = <<"default">>
  /\ nav = << >>
  /\ response = "none"
  /\ doc = EmptyDoc
  /\ cursor = 1
  /\ earthquakes = << >>
  /\ jsEarthquakes = << >>
  /\ now = Now0
  /\ ran = << >>
  /\ result = "pending"
  /\ returned = << >>
  /\ error = "none"
  /\ pd = PdOff
  /\ raised = {}
  /\ RowOff /\ RunsOff /\ ServerOff /\ AppOff /\ HandlersOff
  /\ target \in [year : Years, month : Months, page : {<<"about:blank">>}]
NavigateArchive == NavigateIn(RunDocs, {d \in RunDocs : Len(d) <= 1})
NavigateRetryArchive == NavigateRetryIn(RunDocs)
NextArchive ==
  \/ NavigateArchive
  \/ NavigateRetryArchive
  \/ GetContent
  \/ ParseRow
  \/ TablesDone
  \/ SearchElement
  \/ ElementsDone
  \/ EvaluateItem
  \/ ScriptsDone
  \/ NoMatch_Return
  \/ RemoveDuplicatesAndSort
  \/ CloseBrowser
SpecArchive == InitArchive /\ [][NextArchive]_vars

\* What one call collects from a document when it runs alone.
RECURSIVE rowsAlone(_, _)
rowsAlone(trs, n) ==
  IF n > Len(trs) THEN << >>
  ELSE rowRecords(trs[n], n, Now0, 0) \o rowsAlone(trs, n + 1)
RECURSIVE elemsAlone(_, _)
elemsAlone(divs, n) ==
  IF n > Len(divs) THEN << >>
  ELSE elemRecords(divs[n], n - 1, Now0) \o elemsAlone(divs, n + 1)
RECURSIVE itemsAlone(_, _)
itemsAlone(ds, n) ==
  IF n > Len(ds) THEN << >>
  ELSE itemRecords(ds[n], n, Now0) \o itemsAlone(ds, n + 1)
collectedAlone(d) ==
  IF rowsAlone(tableRows(d, 0, 0), 1) # << >>
    THEN rowsAlone(tableRows(d, 0, 0), 1)
  ELSE IF elemsAlone(earthquakeDivs(d), 1) # << >>
    THEN elemsAlone(earthquakeDivs(d), 1)
  ELSE itemsAlone(dataItems(scripts(d)), 1)
\* A sequence of records without the ids.
withoutIds(rs) ==
  [i \in 1..Len(rs) |->
     [magnitude |-> rs[i].magnitude, latitude |-> rs[i].latitude,
      longitude |-> rs[i].longitude, depth |-> rs[i].depth,
      place |-> rs[i].place, time |-> rs[i].time]]
returnedAlone(d) ==
  {withoutIds(rs) : rs \in sortOutcomes(filterUnique(collectedAlone(d), 1))}

(***************************************************************************)
(* One GET /api/earthquakes request (backend/src/server.ts, lines 60-109). *)
(* The handler has set the idle timeout of the socket (lines 62-63), has   *)
(* started the 3-minute timer (lines 70-74) and the scrape, and awaits     *)
(* Promise.race.  The continuation of the await runs in the microtasks of  *)
(* the callback that settles the race, before any other callback.          *)
(***************************************************************************)
\* What scrapePHIVOLCS resolves with and the messages it rejects with.
ScrapeArrays == {stableSort(filterUnique(collectedAlone(d), 1)) : d \in Docs}
ScrapeErrors ==
  {rethrown("timeout"), rethrown("net::ERR"),
   rethrown("Failed to launch browser"), rethrown("other")}
TimerMessage == "Scraping operation timed out after 3 minutes"
\* Line 86: res.json(earthquakes).
okResponse(array) == [status |-> 200, body |-> array]
\* Lines 102-106: res.status(500).json({error, message, details}).
errorResponse(message, env) ==
  [status |-> 500,
   body |-> [error |-> "Failed to fetch earthquake data", message |-> message,
             details |-> IF env = "development" THEN "stack" ELSE "undefined"]]
InitServer ==
  /\ pc = "off"
  /\ envPath = FALSE
  /\ browser = "none"
  /\ launches = << >>
  /\ nav = << >>
  /\ response = "none"
  /\ doc = EmptyDoc
  /\ cursor = 1
  /\ earthquakes = << >>
  /\ jsEarthquakes = << >>
  /\ now = Now0
  /\ ran = << >>
  /\ result = "pending"
  /\ returned = << >>
  /\ error = "none"
  /\ pd = PdOff
  /\ raised = {}
  /\ RowOff /\ RunsOff /\ RestOff
  /\ \E env \in {"development", "production"} :
       srv = [state |-> "on", env |-> env, scrape |-> "pending",
              race |-> "pending",
              socketTimer |-> "armed", timer |-> "armed", socket |-> "open",
              written |-> << >>, delivered |-> << >>]
\* res.json on the response: the headers go out once (line 101 guards the
\* second call); what is written to a destroyed socket reaches no client.
send(s, resp) ==
  [s EXCEPT !.written = Append(@, resp),
            !.delivered = IF s.socket = "open" THEN Append(@, resp) ELSE @]
\* The continuation of line 76 when the race is fulfilled (lines 81-86).
onFulfilled(s, array) == send([s EXCEPT !.race = "fulfilled"], okResponse(array))
\* The continuation of line 76 when the race is rejected (lines 87-108).
onRejected(s, message) ==
  IF s.written = << >>
    THEN send([s EXCEPT !.race = "rejected"], errorResponse(message, s.env))
    ELSE [s EXCEPT !.race = "rejected"]
\* scrapePHIVOLCS() settles; Promise.race takes the first settlement only.
\* The two timers run in one round of the timer queue, so the scrape does
\* not settle between them.
ScrapeSettles ==
  /\ srv.state # "off"
  /\ srv.scrape = "pending"
  /\ ~(srv.socketTimer = "fired" /\ srv.timer = "armed")
  /\ \/ \E array \in ScrapeArrays :
          srv' = IF srv.race = "pending"
                   THEN onFulfilled([srv EXCEPT !.scrape = "resolved"], array)
                   ELSE [srv EXCEPT !.scrape = "resolved"]
     \/ \E message \in ScrapeErrors :
          srv' = IF srv.race = "pending"
                   THEN onRejected([srv EXCEPT !.scrape = "rejected"], message)
                   ELSE [srv EXCEPT !.scrape = "rejected"]
  /\ UNCHANGED <<scraperVars, pd, raised, rc, run, arrays, target, rest>>
\* Lines 62-63: the socket has been idle for 180000 ms; no 'timeout'
\* listener is registered, so the server destroys the socket.
SocketTimeout ==
  /\ srv.state # "off"
  /\ srv.socketTimer = "armed"
  /\ srv.written = << >>
  /\ srv' = [srv EXCEPT !.socketTimer = "fired", !.socket = "destroyed"]
  /\ UNCHANGED <<scraperVars, pd, raised, rc, run, arrays, target, rest>>
\* Lines 71-73: the callback of setTimeout(..., 180000) rejects the timeout
\* promise.  The timer was started after the idle timer of the socket with
\* the same delay, so it is due after it unless a response has restarted
\* the idle timer.
TimerFires ==
  /\ srv.state # "off"
  /\ srv.timer = "armed"
  /\ srv.socketTimer = "fired" \/ srv.written # << >>
  /\ srv' = IF srv.race = "pending"
              THEN onRejected([srv EXCEPT !.timer = "fired"], TimerMessage)
              ELSE [srv EXCEPT !.timer = "fired"]
  /\ UNCHANGED <<scraperVars, pd, raised, rc, run, arrays, target, rest>>
NextServer ==
  \/ ScrapeSettles
  \/ SocketTimeout
  \/ TimerFires
SpecServer == InitServer /\ [][NextServer]_vars

(***************************************************************************)
(* The App component of the frontend (src/unnamed/part_006).  app holds    *)
(* the state of the hooks, the ref, the requests in flight and the timers. *)
(* An earthquake is a record with id, time, latitude, longitude and        *)
(* magnitude; null and undefined are the values below.                     *)
(***************************************************************************)
Null == [id |-> "null"]
NoError == "null"
\* What fetchEarthquakes can resolve with.  QuakeB lies within the
\* tolerance of QuakeA and of QuakeC, QuakeC does not lie within that of
\* QuakeA; QuakeOld is two days old and somewhere else.
Quake(id, time, latitude, longitude, magnitude) ==
  [id |-> id, time |-> time, latitude |-> latitude, longitude |-> longitude,
   magnitude |-> magnitude]
QuakeA == Quake("a", Now0 - 1000, 6340, 124300, 4100)
QuakeB == Quake("b", Now0 - 51000, 6340, 124300, 4100)
QuakeC == Quake("c", Now0 - 101000, 6340, 124300, 4100)
QuakeOld == Quake("old", 0, 10000, 120000, 5000)
FetchResults == {<< >>, <<QuakeOld, QuakeA>>, <<QuakeA, QuakeB, QuakeC>>}
FetchErrors == {"Network error: Cannot reach the API server."}

\* Lines 45-52: the test of data.filter for the record at index on the
\* whole array self: self.findIndex(e => same id or within the tolerance).
sameRecord(e, eq) ==
  \/ e.id = eq.id
  \/ /\ Abs(e.time - eq.time) < 60000
     /\ Abs(e.latitude - eq.latitude) < 10
     /\ Abs(e.longitude - eq.longitude) < 10
firstSame(self, eq) ==
  CHOOSE i \in 1..Len(self) :
    sameRecord(self[i], eq) /\ \A j \in 1..(i - 1) : ~sameRecord(self[j], eq)
keptIndexes(self) == {i \in 1..Len(self) : i = firstSame(self, self[i])}
RECURSIVE selectIndexes(_, _, _)
selectIndexes(self, keep, i) ==
  IF i > Len(self) THEN << >>
  ELSE (IF i \in keep THEN <<self[i]>> ELSE << >>)
       \o selectIndexes(self, keep, i + 1)
uniqueData(data) == selectIndexes(data, keptIndexes(data), 1)

\* Lines 61-76: the records of uniqueData that no previous record matches
\* in time, place and magnitude.
isExisting(prevEarthquakes, newEq) ==
  \E k \in 1..Len(prevEarthquakes) :
    LET oldEq == prevEarthquakes[k]
    IN /\ Abs(oldEq.time - newEq.time) < 60000
       /\ Abs(oldEq.latitude - newEq.latitude) < 10
       /\ Abs(oldEq.longitude - newEq.longitude) < 10
       /\ Abs(oldEq.magnitude - newEq.magnitude) < 100
newEarthquakes(prevEarthquakes, unique) ==
  selectIndexes(unique,
                {i \in 1..Len(unique) : ~isExisting(prevEarthquakes, unique[i])},
                1)
\* Line 57: the comparison with the previous data is made.
marks(prevEarthquakes, silent, year, month) ==
  prevEarthquakes # << >> /\ ~silent /\ year = 0 /\ month = 0
idsOf(list) == {list[i].id : i \in 1..Len(list)}

\* Lines 141-143: the year and the month of the clock.
currentYear(t) == 1970 + (t \div DayMs) \div 365
currentMonth(t) ==
  LET day == (t \div DayMs) % 365
  IN CHOOSE m \in 1..12 :
       DaysBefore[m] <= day /\ (m = 12 \/ day < DaysBefore[m + 1])
\* Lines 140-153, run until nothing changes: a year without a month gets
\* the current month, a month without a year the current year.
autoFill(year, month, t) ==
  [year |-> IF month # 0 /\ year = 0 THEN currentYear(t) ELSE year,
   month |-> IF year # 0 /\ month = 0 THEN currentMonth(t) ELSE month]
\* Line 165: both selected or both cleared.
settled(year, month) ==
  (year # 0 /\ month # 0) \/ (year = 0 /\ month = 0)

\* Lines 194-245: the filter by period; with a year or a month selected
\* the list is not filtered.
daysInPreviousMonth(m) ==
  IF m = 1 THEN 31 ELSE DaysBefore[m] - DaysBefore[m - 1]
inPeriod(eq, filterBy, t) ==
  CASE filterBy = "today" ->
         \/ eq.time \div DayMs = t \div DayMs
         \/ (t - eq.time >= 0 /\ t - eq.time <= DayMs)
    [] filterBy = "week" -> eq.time >= t - 7 * DayMs
    [] filterBy = "month" ->
         eq.time >= t - daysInPreviousMonth(currentMonth(t)) * DayMs
    [] filterBy = "year" ->
         \/ (t - eq.time) \div DayMs < 365
         \/ ((t - eq.time) \div DayMs = 365 /\ (t - eq.time) % DayMs = 0)
    [] OTHER -> TRUE
filteredEarthquakes(a, t) ==
  IF a.selectedYear # 0 \/ a.selectedMonth # 0 THEN a.earthquakes
  ELSE selectIndexes(a.earthquakes,
                     {i \in 1..Len(a.earthquakes) :
                        inPeriod(a.earthquakes[i], a.filterBy, t)},
                     1)
\* Lines 248-263: the comparator of each sort option puts x before y.
putsBefore(sortBy, x, y) ==
  CASE sortBy = "oldest" -> x.time < y.time
    [] sortBy = "magnitude-high" -> x.magnitude > y.magnitude
    [] sortBy = "magnitude-low" -> x.magnitude < y.magnitude
    [] OTHER -> x.time > y.time
RECURSIVE insertBy(_, _, _)
insertBy(sortBy, sorted, r) ==
  IF sorted = << >> THEN <<r>>
  ELSE IF putsBefore(sortBy, r, Head(sorted)) THEN <<r>> \o sorted
  ELSE <<Head(sorted)>> \o insertBy(sortBy, Tail(sorted), r)
RECURSIVE sortedBy(_, _)
sortedBy(sortBy, list) ==
  IF list = << >> THEN << >>
  ELSE insertBy(sortBy, sortedBy(sortBy, SubSeq(list, 1, Len(list) - 1)),
                list[Len(list)])
filteredSortedEarthquakes(a, t) == sortedBy(a.sortBy, filteredEarthquakes(a, t))
\* list.find(eq => eq.id === selected.id) finds a record.
findsId(list, selected) == \E i \in 1..Len(list) : list[i].id = selected.id
\* An App without the effect that follows the list.
selectionEffect_None(a, t) == a
\* Lines 266-273: the effect on a change of the filtered and sorted list.
selectionEffect(a, t) ==
  LET list == filteredSortedEarthquakes(a, t)
  IN IF list # << >>
          /\ (a.selectedEarthquake = Null \/ ~findsId(list, a.selectedEarthquake))
       THEN [a EXCEPT !.selectedEarthquake = list[1]]
     ELSE IF list = << >> THEN [a EXCEPT !.selectedEarthquake = Null]
     ELSE a

\* The selections and options the user picks from.
AppYears == {0, 2024}
AppMonths == {0, 1}
FilterChoices == {"all", "today"}
SortChoices == {"newest", "magnitude-high"}
notApp == <<scraperVars, pd, raised, rc, run, arrays, srv, target, hnd>>
\* Lines 12-25: the initial values of the hooks and of the ref, before the
\* effects of the first render.
InitApp ==
  /\ pc = "off"
  /\ envPath = FALSE
  /\ browser = "none"
  /\ launches = << >>
  /\ nav = << >>
  /\ response = "none"
  /\ doc = EmptyDoc
  /\ cursor = 1
  /\ earthquakes = << >>
  /\ jsEarthquakes = << >>
  /\ now = Now0
  /\ ran = << >>
  /\ result = "pending"
  /\ returned = << >>
  /\ error = "none"
  /\ pd = PdOff
  /\ raised = {}
  /\ RowOff /\ RunsOff /\ ServerOff /\ target = NoTarget /\ HandlersOff
  /\ app = [state |-> "created",
            earthquakes |-> << >>, selectedEarthquake |-> Null,
            loading |-> TRUE, error |-> NoError, sortBy |-> "newest",
            filterBy |-> "all", autoRefresh |-> TRUE, lastRefresh |-> "null",
            isRefreshing |-> FALSE, newEarthquakesCount |-> 0,
            newEarthquakeIds |-> {}, selectedYear |-> 0, selectedMonth |-> 0,
            refreshingRef |-> FALSE,
            fetches |-> << >>,
            debounce |-> [armed |-> FALSE, year |-> 0, month |-> 0],
            interval |-> [year |-> 0, month |-> 0],
            idTimers |-> {}, countTimer |-> FALSE,
            event |-> "other", stale |-> FALSE,
            data |-> << >>, settled |-> Null]
\* A loadEarthquakes that fetches whatever the ref says.
guardSkips_Never(ref) == FALSE
\* Lines 29-32: the call returns when a load is in progress.
guardSkips(ref) == ref
\* Lines 27-42: loadEarthquakes(silent, year, month) up to the await, in
\* the instance of the callback that saw the selection closure.
loadEarthquakes(a, silent, year, month, closure) ==
  IF guardSkips(a.refreshingRef) THEN [a EXCEPT !.event = "skipped"]
  ELSE LET y == IF year # 0 THEN year ELSE closure.year
           m == IF month # 0 THEN month ELSE closure.month
       IN [a EXCEPT
             !.refreshingRef = TRUE,
             !.loading = IF silent THEN @ ELSE TRUE,
             !.isRefreshing = IF silent THEN TRUE ELSE @,
             !.error = NoError,
             !.fetches = Append(@, [silent |-> silent, year |-> y,
                                    month |-> m, argYear |-> year,
                                    argMonth |-> month]),
             !.event = "started",
             !.stale = @ /\ ~(y = a.selectedYear /\ m = a.selectedMonth)]
\* The selection of the current render.
selection(a) == [year |-> a.selectedYear, month |-> a.selectedMonth]
\* What every handler starts from.  The fields event, data and settled
\* tell what the last handler did: a call of loadEarthquakes that started
\* a request or was skipped, a request that resolved with data or was
\* rejected, or something else.
during(a) == [a EXCEPT !.event = "other", !.data = << >>, !.settled = Null]
\* Lines 156-172: the effect of a change of the selection clears the
\* highlights and arms the timer of 300 ms in place of the previous one.
debounceEffect(a) ==
  [a EXCEPT !.newEarthquakeIds = {}, !.newEarthquakesCount = 0,
            !.debounce = [armed |-> TRUE, year |-> a.selectedYear,
                          month |-> a.selectedMonth]]
\* The effects of the first render, in the order of the source: the load
\* of line 135, the timer of the selection, the interval, the selection.
Mount ==
  /\ app.state = "created"
  /\ app' = selectionEffect(
              debounceEffect(
                loadEarthquakes([during(app) EXCEPT !.state = "on"],
                                FALSE, 0, 0, selection(app))), now)
  /\ UNCHANGED notApp
\* Lines 102-108 and 110-130: the request of position i settles.
removeAt(seq, i) == SubSeq(seq, 1, i - 1) \o SubSeq(seq, i + 1, Len(seq))
finallyBlock(a, i) ==
  [a EXCEPT !.loading = FALSE, !.isRefreshing = FALSE,
            !.refreshingRef = FALSE, !.fetches = removeAt(@, i)]
resolved(a, i, data) ==
  LET f == a.fetches[i]
      unique == uniqueData(data)
      news == newEarthquakes(a.earthquakes, unique)
      found == marks(a.earthquakes, f.silent, f.argYear, f.argMonth)
                 /\ news # << >>
  IN [finallyBlock(during(a), i) EXCEPT
        !.event = "resolved",
        !.settled = f,
        !.earthquakes = unique,
        !.data = data,
        !.newEarthquakeIds = IF found THEN idsOf(news) ELSE {},
        !.newEarthquakesCount = IF found THEN Len(news) ELSE 0,
        !.idTimers = IF found THEN @ \cup {idsOf(news)} ELSE @,
        !.countTimer = IF found THEN TRUE ELSE @,
        !.selectedEarthquake =
           IF unique = << >> THEN Null
           ELSE IF @ = Null \/ ~findsId(unique, @) THEN unique[1] ELSE @,
        !.lastRefresh = "set"]
rejected(a, i, message) ==
  [finallyBlock(during(a), i) EXCEPT
     !.event = "rejected", !.settled = a.fetches[i],
     !.error = message, !.earthquakes = << >>, !.selectedEarthquake = Null]
FetchSettles ==
  /\ app.state = "on"
  /\ \E i \in 1..Len(app.fetches) :
       \/ \E data \in FetchResults :
            app' = selectionEffect(resolved(app, i, data), now)
       \/ \E message \in FetchErrors :
            app' = selectionEffect(rejected(app, i, message), now)
  /\ UNCHANGED notApp
\* Lines 162-168: the timer of the selection fires.
DebounceFires ==
  /\ app.state = "on" /\ app.debounce.armed
  /\ LET a == [during(app) EXCEPT !.debounce.armed = FALSE]
         year == app.debounce.year
         month == app.debounce.month
     IN app' = IF settled(year, month)
                 THEN loadEarthquakes(a, FALSE, year, month,
                                      [year |-> year, month |-> month])
                 ELSE a
  /\ UNCHANGED notApp
\* Lines 178-180: the interval fires; its callback is the one of the render
\* in which the interval was set.
IntervalFires ==
  /\ app.state = "on" /\ app.autoRefresh
  /\ app' = loadEarthquakes(during(app), TRUE, 0, 0, app.interval)
  /\ UNCHANGED notApp
\* The buttons Try Again and Refresh Data, shown when nothing is loading.
ClickRefresh ==
  /\ app.state = "on" /\ ~app.loading
  /\ app' = loadEarthquakes(during(app), FALSE, 0, 0, selection(app))
  /\ UNCHANGED notApp
\* The list is shown when nothing is loading and there is no error; its
\* controls (src/unnamed/part_004, line 79) when there are earthquakes.
listShown(a) == a.state = "on" /\ ~a.loading /\ a.error = NoError
controlsShown(a) == listShown(a) /\ a.earthquakes # << >>
\* onYearChange / onMonthChange, with the effects of lines 140-172 and
\* 266-273 that follow the change.
selectionChanged(a, year, month, t) ==
  LET filled == autoFill(year, month, t)
      b == [a EXCEPT !.selectedYear = filled.year,
                     !.selectedMonth = filled.month,
                     !.stale = settled(filled.year, filled.month)]
  IN selectionEffect(debounceEffect(b), t)
SetSelectedYear ==
  /\ controlsShown(app)
  /\ \E year \in AppYears \ {app.selectedYear} :
       app' = selectionChanged(during(app), year, app.selectedMonth, now)
  /\ UNCHANGED notApp
SetSelectedMonth ==
  /\ controlsShown(app)
  /\ \E month \in AppMonths \ {app.selectedMonth} :
       app' = selectionChanged(during(app), app.selectedYear, month, now)
  /\ UNCHANGED notApp
\* onFilterChange: with a year or a month selected the only option is all.
SetFilterBy ==
  /\ controlsShown(app)
  /\ \E filterBy \in FilterChoices \ {app.filterBy} :
       /\ filterBy = "all" \/ (app.selectedYear = 0 /\ app.selectedMonth = 0)
       /\ app' = selectionEffect([during(app) EXCEPT
                                    !.filterBy = filterBy], now)
  /\ UNCHANGED notApp
SetSortBy ==
  /\ controlsShown(app)
  /\ \E sortBy \in SortChoices \ {app.sortBy} :
       app' = selectionEffect([during(app) EXCEPT !.sortBy = sortBy], now)
  /\ UNCHANGED notApp
\* Lines 188-190: a click on a record of the list or of the map.
handleEarthquakeClick ==
  /\ listShown(app)
  /\ \E i \in 1..Len(filteredSortedEarthquakes(app, now)) :
       app' = [during(app) EXCEPT
                 !.selectedEarthquake = filteredSortedEarthquakes(app, now)[i]]
  /\ UNCHANGED notApp
\* The checkbox of the header; lines 175-184 set the interval with the
\* callback of the render in which the box was ticked.
SetAutoRefresh ==
  /\ app.state = "on"
  /\ app' = [during(app) EXCEPT
               !.autoRefresh = ~@,
               !.interval = IF app.autoRefresh THEN @ ELSE selection(app)]
  /\ UNCHANGED notApp
\* Lines 87-93 and 96: the timers that end the highlight and the notice.
\* Pending timers with the same effect are kept once.
HighlightExpires ==
  /\ app.state = "on"
  /\ \E newIds \in app.idTimers :
       app' = [during(app) EXCEPT
                 !.newEarthquakeIds = @ \ newIds, !.idTimers = @ \ {newIds}]
  /\ UNCHANGED notApp
NoticeExpires ==
  /\ app.state = "on" /\ app.countTimer
  /\ app' = [during(app) EXCEPT
               !.newEarthquakesCount = 0, !.countTimer = FALSE]
  /\ UNCHANGED notApp
NextApp ==
  \/ Mount
  \/ FetchSettles
  \/ DebounceFires
  \/ IntervalFires
  \/ ClickRefresh
  \/ SetSelectedYear
  \/ SetSelectedMonth
  \/ SetFilterBy
  \/ SetSortBy
  \/ handleEarthquakeClick
  \/ SetAutoRefresh
  \/ HighlightExpires
  \/ NoticeExpires
SpecApp == InitApp /\ [][NextApp]_vars
\* The first render is followed by its effects, a timer that is armed and
\* an interval that is set fire, and a request settles: axios gives up
\* after 60 s.  Nothing obliges the user to act.
SpecAppFair ==
  /\ SpecApp
  /\ WF_vars(Mount) /\ WF_vars(DebounceFires)
  /\ WF_vars(IntervalFires) /\ WF_vars(FetchSettles)

(***************************************************************************)
(* The two other operations that launch a browser: the serverless handler  *)
(* (src/api/earthquakes.ts, lines 41-154) and GET /api/debug/html          *)
(* (src/backend/src/server.ts, lines 24-57).  hnd holds one request: the   *)
(* operation, its position, its browser, the document in the page, the     *)
(* earthquakes parsed and the status of the response.                      *)
(***************************************************************************)
HandlerItems == TableItems \cup {RowB}
HandlerDocs == SeqsUpTo(HandlerItems, MaxItems)
notHnd == <<scraperVars, pd, raised, rc, run, arrays, srv, target, app>>
InitHandlers ==
  /\ pc = "off"
  /\ envPath = FALSE
  /\ browser = "none"
  /\ launches = << >>
  /\ nav = << >>
  /\ response = "none"
  /\ doc = EmptyDoc
  /\ cursor = 1
  /\ earthquakes = << >>
  /\ jsEarthquakes = << >>
  /\ now = Now0
  /\ ran = << >>
  /\ result = "pending"
  /\ returned = << >>
  /\ error = "none"
  /\ pd = PdOff
  /\ raised = {}
  /\ RowOff /\ RunsOff /\ ServerOff /\ target = NoTarget /\ AppOff
  /\ hnd \in [state : {"on"}, kind : {"vercel", "debug"}, pc : {"launch"},
              browser : {"none"}, doc : {EmptyDoc}, earthquakes : {<< >>},
              status : {0}]
\* Lines 95-131 of the serverless handler: the records of one row.
tdCells(row) == IF row.th THEN << >> ELSE row.cells
apiRowRecords(tr, t) ==
  LET cells == tdCells(tr.row)
  IN IF tr.rowIndex = 0 \/ Len(cells) < 6 THEN << >>
     ELSE LET latitude == parseFloat(cells[3])
              longitude == parseFloat(cells[4])
              depth == parseFloat(cells[5])
              magnitude == parseFloat(cells[6])
              placeCell == IF Len(cells) > 6 THEN cells[7] ELSE W("Unknown")
          IN IF isNaN(latitude) \/ isNaN(longitude) \/ isNaN(magnitude)
               THEN << >>
             ELSE <<[id |-> <<cells[1], cells[2], latitude, longitude>>,
                     magnitude |-> magnitude,
                     place |-> IF placeCell # Empty THEN placeCell
                               ELSE <<"Unknown", "Location">>,
                     time |-> apiParseDate(cells[1], cells[2], t).time,
                     longitude |-> longitude,
                     latitude |-> latitude,
                     depth |-> IF isNaN(depth) THEN 0 ELSE depth]>>
RECURSIVE apiRecords(_, _)
apiRecords(trs, t) ==
  IF trs = << >> THEN << >>
  ELSE apiRowRecords(Head(trs), t) \o apiRecords(Tail(trs), t)
\* The finally block of the serverless handler (lines 146-153); the debug
\* endpoint has none.
closedInFinally(kind, b) ==
  IF kind = "vercel" /\ b = "open" THEN "closed" ELSE b
\* An exception in the try block: the catch block answers 500 (lines
\* 137-145 and 51-56), then the finally block, if any.
caught(h) ==
  [h EXCEPT !.status = 500, !.pc = "done",
            !.browser = closedInFinally(h.kind, h.browser)]
\* chromium.executablePath / import('puppeteer'), puppeteer.launch and the
\* set-up of the page.
HandlerLaunch ==
  /\ hnd.state = "on" /\ hnd.pc = "launch"
  /\ \E ok \in BOOLEAN :
       hnd' = IF ok THEN [hnd EXCEPT !.browser = "open", !.pc = "goto"]
              ELSE caught(hnd)
  /\ UNCHANGED notHnd
\* page.goto and the wait that follows it.
HandlerGoto ==
  /\ hnd.state = "on" /\ hnd.pc = "goto"
  /\ \/ \E d \in HandlerDocs : hnd' = [hnd EXCEPT !.doc = d, !.pc = "content"]
     \/ hnd' = caught(hnd)
  /\ UNCHANGED notHnd
\* page.content() (and page.evaluate in the debug endpoint); the serverless
\* handler parses the tables of the document.
HandlerContent ==
  /\ hnd.state = "on" /\ hnd.pc = "content"
  /\ \E ok \in BOOLEAN :
       hnd' = IF ~ok THEN caught(hnd)
              ELSE [hnd EXCEPT
                      !.pc = "close",
                      !.earthquakes =
                         IF hnd.kind = "vercel"
                           THEN apiRecords(tableRows(hnd.doc, 0, 0), now)
                           ELSE @]
  /\ UNCHANGED notHnd
\* browser.close() and the response 200 (lines 132-136 of the serverless
\* handler, lines 43-50 of the debug endpoint).
HandlerRespond ==
  /\ hnd.state = "on" /\ hnd.pc = "close"
  /\ hnd' = [hnd EXCEPT !.browser = "closed", !.status = 200, !.pc = "done"]
  /\ UNCHANGED notHnd
NextHandlers ==
  \/ HandlerLaunch
  \/ HandlerGoto
  \/ HandlerContent
  \/ HandlerRespond
SpecHandlers == InitHandlers /\ [][NextHandlers]_vars

(***************************************************************************)
(* Properties.                                                             *)
(***************************************************************************)
StrategyOrder == <<"tables", "elements", "scripts">>
StrategyTag(s) ==
  IF s = "tables" THEN "phivolcs" ELSE IF s = "elements" THEN "div" ELSE "js"
Collected == earthquakes \o jsEarthquakes
Returned == result = "returned"
NavigationFailed ==
  \E i \in 1..Len(nav) : nav[i] \in {"timeout", "net::ERR", "failed"}

\* C1: the strategies start in the order tabular, attribute-pattern,
\* embedded-data; every record collected or returned was produced by the
\* strategy started last, so a strategy started only when the earlier ones
\* had produced nothing, and nothing is added once a strategy has produced
\* records.
C1_StrategyLadder ==
  /\ ran = SubSeq(StrategyOrder, 1, Len(ran))
  /\ \A i \in 1..Len(Collected) :
       ran # << >> /\ Collected[i].id.tag = StrategyTag(ran[Len(ran)])
  /\ \A i \in 1..Len(returned) :
       ran # << >> /\ returned[i].id.tag = StrategyTag(ran[Len(ran)])
\* C1 witness: a document with a valid row and an element that would give a
\* record; only the tabular strategy ran and its record was returned.
C1_Witness ==
  /\ pc = "done" /\ Returned /\ returned # << >>
  /\ ran = <<"tables">>
  /\ earthquakeDivs(doc) # << >>
  /\ elemRecords(earthquakeDivs(doc)[1], 0, now) # << >>

C3_NavigationFailureIsThrown ==
  (pc = "done" /\ NavigationFailed) => (result = "thrown" /\ ran = << >>)

\* C4: every returned record has 0 < magnitude <= 10, 3 <= latitude <= 22
\* and 115 <= longitude <= 128.
C4_ReturnedWithinBounds ==
  Returned =>
    \A i \in 1..Len(returned) :
      /\ Gt(returned[i].magnitude, 0) /\ Le(returned[i].magnitude, 10000)
      /\ LatBand(returned[i].latitude)
      /\ LonBand(returned[i].longitude)

\* C5: the ids of the records of a returned sequence are pairwise distinct.
C5_ReturnedIdsDistinct ==
  Returned =>
    \A i, j \in 1..Len(returned) : i # j => returned[i].id # returned[j].id
\* C5 witness: two collected records had the same id and the returned
\* sequence is shorter than the collected one.
C5_Witness ==
  /\ Returned
  /\ \E i, j \in 1..Len(earthquakes) :
       i # j /\ earthquakes[i].id = earthquakes[j].id
  /\ Len(returned) < Len(earthquakes)

\* C6: the ids of the collected records are pairwise distinct before the
\* duplicates are removed, so no record of another row, element or data
\* item is removed.
C6_CollectedIdsDistinct ==
  /\ \A i, j \in 1..Len(Collected) :
       i # j => Collected[i].id # Collected[j].id
  /\ Returned /\ returned # << >> => Len(returned) = Len(earthquakes)

withinTolerance(a, b) ==
  /\ ~isNaN(a.time) /\ ~isNaN(b.time)
  /\ Abs(a.time - b.time) < 60000
  /\ Abs(a.latitude - b.latitude) < 10
  /\ Abs(a.longitude - b.longitude) < 10
C8_NoDuplicatesByTolerance ==
  Returned =>
    \A i, j \in 1..Len(returned) :
      i # j => ~withinTolerance(returned[i], returned[j])

\* C9: parseDate returns a timestamp for every pair of arguments and lets no
\* exception out; when its try block throws, it returns the current time
\* and writes a warning.
C9_ParseDateNeverThrows ==
  pd.state = "ret" =>
    /\ ~pd.ret.escaped
    /\ ~isNaN(pd.ret.time)
    /\ parseThrows(pd.dateStr, pd.timeStr)
         => (pd.ret.time = now /\ pd.ret.warned)
\* C9 witness: a call whose try block threw has returned the current time.
C9_Witness ==
  /\ pd.state = "ret"
  /\ parseThrows(pd.dateStr, pd.timeStr)
  /\ pd.ret.time = now /\ pd.ret.warned /\ ~pd.ret.escaped

\* C10: the time of every returned record is a number of milliseconds that
\* is not NaN and not negative.
C10_TimeNotNegative ==
  Returned =>
    \A i \in 1..Len(returned) :
      ~isNaN(returned[i].time) /\ returned[i].time >= 0

\* C11: every returned record has a depth that is a number and not
\* negative; a Tier A row whose depth cell is not a number is emitted like
\* the same row with a depth, and its depth is 0.
C11_DepthNotNegative ==
  /\ Returned =>
       \A i \in 1..Len(returned) :
         ~isNaN(returned[i].depth) /\ returned[i].depth >= 0
  /\ \A n \in 1..(cursor - 1) :
       LET tr == tableRows(doc, 0, 0)[n]
           withDepth == [tr EXCEPT !.row.cells[4] = W("048")]
       IN (/\ pc = "tables" /\ n \notin raised /\ ~skipRow(tr.row)
           /\ isNaN(parseFloat(tr.row.cells[4]))
           /\ rowRecords(withDepth, n, now, 0) # << >>)
            => \E i \in 1..Len(earthquakes) :
                 earthquakes[i].origin = n /\ earthquakes[i].depth = 0

\* The place text of a row of at least six cells is empty: the cells from
\* the sixth on in Tier A, the last cell in Tier B.
IsTierA(cells) == Len(cells) >= 6 /\ hasMonthOrYear(cells[1])
IsTierB(cells) == Len(cells) >= 6 /\ ~hasMonthOrYear(cells[1])
emptyPlace(cells) ==
  IF IsTierA(cells) THEN \A k \in 6..Len(cells) : cells[k] = Empty
  ELSE cells[Len(cells)] = Empty
\* The records of the same row with a place in its last cell.
withPlace(cells) ==
  rowRecords([tableIndex |-> 0, rowIndex |-> 0,
              row |-> Tr(FALSE, [cells EXCEPT ![Len(cells)] = W("Davao")])],
             1, now, 0)
\* C12: a row of Tier A or Tier B whose place text is empty gives a record
\* whenever the same row with a place gives one, and the place of that
\* record is "Unknown Location"; no record has an empty place.
C12_EmptyPlaceIsUnknownLocation ==
  rc.state = "ret" =>
    /\ \A i \in 1..Len(rc.records) : rc.records[i].place # Empty
    /\ (Len(rc.cells) >= 6 /\ emptyPlace(rc.cells)
        /\ withPlace(rc.cells) # << >>)
         => /\ rc.records # << >>
            /\ rc.records[1].place = <<"Unknown", "Location">>

\* C13: under every interleaving of the steps of two calls, the records a
\* call returns are, the ids apart, records that the call returns when it
\* runs alone on its document.
C13_RunsAreIndependent ==
  \A r \in Runs :
    run[r].pc = "done" =>
      withoutIds(run[r].returned) \in returnedAlone(run[r].doc)
\* C13 witness: two calls on different documents took steps while the
\* other was running, and both returned records.
C13_Witness ==
  /\ run[1].doc # run[2].doc
  /\ \A r \in Runs :
       /\ run[r].pc = "done" /\ run[r].overlapped
       /\ run[r].returned # << >>

\* C14: a request gets at most one response, and once the race of line 76
\* is settled it has got exactly one: 200 with the array when the scrape
\* resolved before the timer fired, 500 with error, message and details
\* otherwise; a later settlement of the scrape or of the timer adds none.
C14_ExactlyOneResponse ==
  /\ Len(srv.written) <= 1
  /\ srv.race # "pending" =>
       /\ Len(srv.delivered) = 1
       /\ IF srv.race = "fulfilled"
            THEN /\ srv.delivered[1].status = 200
                 /\ srv.delivered[1].body \in ScrapeArrays
            ELSE /\ srv.delivered[1].status = 500
                 /\ srv.delivered[1].body.error = "Failed to fetch earthquake data"
                 /\ srv.delivered[1].body.message \in ScrapeErrors \cup {TimerMessage}

\* The bounds of section 5 of the specification, NaN lying in no interval.
magnitudeInBounds(m) == Gt(m, 0) /\ Le(m, 10000)
latitudeInBounds(v) == v # 0 /\ Ge(v, 3000) /\ Le(v, 22000)
longitudeInBounds(v) == v # 0 /\ Ge(v, 115000) /\ Le(v, 128000)
\* C15: a row of at least six cells whose assigned magnitude is not in
\* (0, 10], or whose assigned latitude is 0 or not in [3, 22], or whose
\* assigned longitude is 0 or not in [115, 128], gives no record.
C15_InvalidRowsAreRejected ==
  (rc.state = "ret" /\ ~rc.skipped) =>
    ((\/ ~magnitudeInBounds(rc.fields.magnitude)
      \/ ~latitudeInBounds(rc.fields.latitude)
      \/ ~longitudeInBounds(rc.fields.longitude))
       => rc.records = << >>)

\* The records of the attribute-pattern strategy among the collected ones.
IsDivRecord(r) == r.id.tag = "div"
divRecords == SelectSeq(earthquakes, IsDivRecord)
\* C16: when the tabular strategy has found nothing and the document has
\* one selected element, with a magnitude label whose number m lies in
\* (0, 10] and without a depth label, the attribute-pattern strategy gives
\* exactly one record: magnitude m, the labelled latitude and longitude or
\* 0 where the label is missing, depth 0 and place "Philippines".
C16_AttributePatternRecord ==
  LET divs == earthquakeDivs(doc)
  IN (/\ Len(ran) >= 2 /\ pc # "elements"
      /\ Len(divs) = 1
      /\ divs[1].m # NoMatch /\ magnitudeInBounds(divs[1].m)
      /\ divs[1].depth = NoMatch)
       => /\ Len(divRecords) = 1
          /\ divRecords[1].magnitude = divs[1].m
          /\ divRecords[1].latitude =
               (IF divs[1].lat = NoMatch THEN 0 ELSE divs[1].lat)
          /\ divRecords[1].longitude =
               (IF divs[1].lon = NoMatch THEN 0 ELSE divs[1].lon)
          /\ divRecords[1].depth = 0
          /\ divRecords[1].place = W("Philippines")

\* C17: a row in whose try block an exception was raised has added no
\* record, the call has not thrown, and once the tables are done every row
\* that raised nothing and passes validation has added its record.
C17_RowExceptionIsCaught ==
  /\ \A n \in raised :
       \A i \in 1..Len(earthquakes) : earthquakes[i].origin # n
  /\ raised # {} => result # "thrown"
  /\ (raised # {} /\ pc # "tables") =>
       \A n \in 1..Len(tableRows(doc, 0, 0)) :
         (n \notin raised
          /\ rowRecords(tableRows(doc, 0, 0)[n], n, now, 0) # << >>)
           => \E i \in 1..Len(earthquakes) : earthquakes[i].origin = n
\* C17 witness: a row raised an exception, a later row gave a record, and
\* the call returned that record.
C17_Witness ==
  /\ pc = "done" /\ Returned
  /\ \E n \in raised :
       \E i \in 1..Len(returned) : returned[i].origin > n

\* C18: a row of three, four or five td cells without header words gives a
\* record when the fields the extractor assigns to it pass the validation;
\* a row of two cells gives none.
C18_ShortRowsAreExtracted ==
  rc.state = "ret" =>
    /\ Len(rc.cells) < 3 => rc.records = << >>
    /\ (/\ Len(rc.cells) \in 3..5
        /\ magnitudeInBounds(rc.fields.magnitude)
        /\ latitudeInBounds(rc.fields.latitude)
        /\ longitudeInBounds(rc.fields.longitude))
         => (/\ rc.records # << >>
             /\ rc.records[1].magnitude = rc.fields.magnitude
             /\ rc.records[1].latitude = rc.fields.latitude
             /\ rc.records[1].longitude = rc.fields.longitude)

\* The number a cell text stands for when its leading zeros are ignored.
plainValue(s) ==
  CASE s = W("06.34") -> 6340
    [] s = W("048") -> 48000
    [] s = W("0") -> 0
    [] s = W("000") -> 0
    [] OTHER -> parseFloat(s)
\* C19: in Tier A the cells 1, 2, 3 give latitude, longitude and depth,
\* each the number of its text with the leading zeros ignored, cell 4 gives
\* the magnitude and cell 5, when it is not empty, the place.
C19_TierAMapping ==
  (rc.state = "ret" /\ IsTierA(rc.cells)) =>
    /\ rc.fields.latitude = plainValue(rc.cells[2])
    /\ rc.fields.longitude = plainValue(rc.cells[3])
    /\ rc.fields.depth = plainValue(rc.cells[4])
    /\ rc.fields.magnitude = parseFloat(rc.cells[5])
    /\ rc.cells[6] # Empty => rc.fields.place = rc.cells[6]
\* C19 witness: a Tier A row with the cells "06.34", "124.3", "000", "4.1"
\* has latitude 6.34, longitude 124.3, depth 0 and magnitude 4.1.
C19_Witness ==
  /\ rc.state = "ret" /\ IsTierA(rc.cells)
  /\ rc.cells[2] = W("06.34") /\ rc.cells[4] = W("000")
  /\ rc.fields.latitude = 6340 /\ rc.fields.longitude = 124300
  /\ rc.fields.depth = 0 /\ rc.fields.magnitude = 4100
  /\ rc.records # << >> /\ rc.records[1].latitude = 6340

\* The numbers of the cells 2-5 of a row.
cellValues(cells) == [k \in 1..4 |-> parseFloat(cells[k + 2])]
\* C20: in Tier B, when the numbers of the cells 2-5 hold a value of the
\* latitude band and, in another cell, a value of the longitude band, the
\* latitude and the longitude are such a pair and the numbers of the two
\* other cells are the depth and the magnitude, in the order of the cells.
C20_TierBBands ==
  (rc.state = "ret" /\ IsTierB(rc.cells)) =>
    LET vals == cellValues(rc.cells)
        pairs == {p \in (1..4) \X (1..4) :
                    p[1] # p[2] /\ LatBand(vals[p[1]]) /\ LonBand(vals[p[2]])}
    IN pairs # {} =>
         \E p \in pairs : \E k1, k2 \in 1..4 :
           /\ k1 < k2 /\ {k1, k2} \cap {p[1], p[2]} = {}
           /\ rc.fields.latitude = vals[p[1]]
           /\ rc.fields.longitude = vals[p[2]]
           /\ rc.fields.depth = vals[k1]
           /\ rc.fields.magnitude = vals[k2]

\* The fields the column arrangement of a row assigns on its own, that is,
\* started from the blank fields instead of the result of the search.
mappingFields(cells) ==
  IF hasMonthOrYear(cells[1]) THEN tierA(blankFields, cells)
  ELSE tierB(blankFields, cells)
\* C21: the magnitude of a record emitted for a table row is the magnitude
\* that the column arrangement of its tier assigns; the value found by the
\* search over all cells before the arrangement is never what is emitted.
C21_MagnitudeIsFromMapping ==
  (rc.state = "ret" /\ rc.records # << >>) =>
    rc.records[1].magnitude = mappingFields(rc.cells).magnitude

\* The timestamps of the parse attempts in their order of priority: the
\* split at the delimiter, the direct concatenation, the slashes replaced by
\* dashes, the 'T' join and the join with a blank.
attemptTimes(dateStr, timeStr) ==
  <<parseCombined(dateStr),
    DateGetTime(Join(dateStr, timeStr)),
    DateGetTime(replaceSlashes(dateStr)),
    DateGetTime(JoinT(dateStr, timeStr)),
    DateGetTime(Join(dateStr, timeStr))>>
\* C22: parseDate returns the timestamp of the first attempt, in the order
\* of priority, that gives a valid date; it returns the current time only
\* when every attempt fails, and then it has written a warning.
C22_FirstValidAttemptOrNow ==
  pd.state \in {"ret", "apiRet"} =>
    LET ts == attemptTimes(pd.dateStr, pd.timeStr)
        valid == {i \in 1..Len(ts) : ~isNaN(ts[i])}
    IN /\ valid # {} =>
            \E i \in valid : /\ \A j \in valid : i <= j
                             /\ pd.ret.time = ts[i]
       /\ valid = {} => pd.ret.time = now
       /\ pd.ret.time = now => pd.ret.warned

\* The launch attempts of the ladder, in order.
LaunchLadder(env) ==
  IF env THEN <<"default", "envPath", "install">> ELSE <<"default", "install">>
\* C23: the launches tried are, in order, the default launch, the launch
\* with PUPPETEER_EXECUTABLE_PATH (only when it is set) and the launch after
\* the install script; no launch is tried once a browser was obtained; when
\* every attempt has failed the call throws and has neither opened a page
\* nor navigated.
C23_LaunchLadder ==
  /\ launches = SubSeq(LaunchLadder(envPath), 1, Len(launches))
  /\ browser # "none" => pc \notin {"launch", "envLaunch", "install"}
  /\ (pc \in {"finally", "done"} /\ browser = "none")
       => /\ result = "thrown" /\ error = "Browser launch error"
          /\ nav = << >> /\ response = "none" /\ ran = << >>
\* C23 witness: with PUPPETEER_EXECUTABLE_PATH set, the three launches have
\* failed in order and the call has thrown without navigating.
C23_Witness ==
  /\ envPath /\ launches = <<"default", "envPath", "install">>
  /\ browser = "none" /\ pc = "done"
  /\ result = "thrown" /\ nav = << >>

\* C24: when a call with both year and month returns records, the page they
\* were read from is the monthly archive of that year and month, whatever
\* the navigation went through; a call without year or without month reads
\* the page of the latest events.
C24_RecordsComeFromTargetPage ==
  (Returned /\ returned # << >>) =>
    target.page = IF target.year # 0 /\ target.month # 0
                    THEN MonthlyUrl(target.year, MonthNames[target.month])
                    ELSE LatestUrl

\* The state of the hooks and of the ref, and the requests in flight.
hooks(a) ==
  <<a.earthquakes, a.selectedEarthquake, a.loading, a.error, a.sortBy,
    a.filterBy, a.autoRefresh, a.lastRefresh, a.isRefreshing,
    a.newEarthquakesCount, a.newEarthquakeIds, a.selectedYear,
    a.selectedMonth, a.refreshingRef, a.fetches>>
\* C25: at most one request of loadEarthquakes is in flight, and a call of
\* loadEarthquakes made while a load is in progress starts no request and
\* changes no state of the component.
C25_OneFetchInFlight ==
  /\ [](app.state = "on" =>
          /\ Len(app.fetches) <= 1
          /\ app.refreshingRef <=> app.fetches # << >>)
  /\ [][app'.event = "skipped" => hooks(app') = hooks(app)]_vars
\* C25 witness: a call was skipped while a request was in flight.
C25_Witness ==
  /\ app.state = "on" /\ app.event = "skipped"
  /\ Len(app.fetches) = 1 /\ app.refreshingRef

\* The selections of year and month that can be shown.
Selections == [year : AppYears \cup {currentYear(Now0)}, month : AppMonths]
\* C26: when the selection of year and month has changed to one with both
\* set or both cleared, a load for that selection is eventually started,
\* unless the selection changes again.
C26_SettledSelectionIsReloaded ==
  \A s \in Selections :
    (app.stale /\ selection(app) = s) ~> (~app.stale \/ selection(app) # s)

\* C27: the comparison with the previous data marks earthquakes as new
\* only in a silent load; a load that is not silent marks none.
C27_OnlySilentLoadsMark ==
  (app.state = "on" /\ app.event = "resolved" /\ app.newEarthquakeIds # {})
    => app.settled.silent

\* C28: of the fetched records the first of each group of duplicates is
\* kept, and a record is removed only when an earlier record that is kept
\* has its id or lies within the tolerance of it.
C28_RemovedOnlyForKeptRecord ==
  (app.state = "on" /\ app.event = "resolved") =>
    LET data == app.data
        kept == idsOf(app.earthquakes)
    IN \A i \in 1..Len(data) :
         IF data[i].id \in kept
           THEN \A j \in 1..(i - 1) :
                  data[j].id \in kept => ~sameRecord(data[j], data[i])
           ELSE \E j \in 1..(i - 1) :
                  data[j].id \in kept /\ sameRecord(data[j], data[i])

\* C30: after every handler and the effects that follow it, the selected
\* earthquake is null when the filtered and sorted list is empty and
\* otherwise a record whose id is in that list; after a rejected request
\* the earthquakes are empty, nothing is selected and the error is set.
C30_SelectionFollowsList ==
  app.state = "on" =>
    LET list == filteredSortedEarthquakes(app, now)
    IN /\ list = << >> => app.selectedEarthquake = Null
       /\ list # << >> =>
            (app.selectedEarthquake # Null /\ findsId(list, app.selectedEarthquake))
       /\ app.event = "rejected" =>
            /\ app.earthquakes = << >>
            /\ app.selectedEarthquake = Null
            /\ app.error # NoError
\* C30 witness: with the filter on today a request resolved with an old
\* record first; the load selected nothing the list lacks: the record
\* selected is the one of today.
C30_Witness ==
  /\ app.state = "on" /\ app.event = "resolved" /\ app.filterBy = "today"
  /\ app.earthquakes = <<QuakeOld, QuakeA>>
  /\ filteredSortedEarthquakes(app, now) = <<QuakeA>>
  /\ app.selectedEarthquake = QuakeA

\* C29: when an operation that launched a browser has completed, by a
\* return, a response or an error, its browser is closed: scrapePHIVOLCS,
\* the serverless handler and GET /api/debug/html.
C29_LaunchedBrowserIsClosed ==
  /\ pc = "done" => browser # "open"
  /\ (hnd.state = "on" /\ hnd.pc = "done") => hnd.browser # "open"

====
